---- MODULE Spec2Model ----
(***************************************************************************)
(* Wii U backend of SDL: the software keyboard glue (two variants: the     *)
(* exception-based one of SDL_wiiu_swkbd.cpp and the enable-flag one),     *)
(* the physical-keyboard event buffer and the SDL spinlock.                *)
(***************************************************************************)
EXTENDS Integers, Sequences, FiniteSets, TLC

VARIABLES
    variant,      \* which software-keyboard translation unit is linked: "exc" or "flag"
    kb,           \* the globals of namespace detail (create::, appear::, swkbdLocale, ...)
    nn,           \* the state of the vendor library nn::swkbd
    last,         \* history: the last public call, what it returned and what it called
    event_buffer, \* WIIUKBD_EventBuffer: events[] and current
    kbd,          \* event_buffer_mutex and the position of the callback and pump threads
    lock,         \* one SDL_SpinLock word
    thr,          \* the position of every thread that uses the spinlock
    log,          \* the globals of SDL_log.c: SDL_loglevels, the priorities, the output function
    logLast,      \* history: the last SDL_Log* call, what it returned and what it called
    tvDrcEnabled, \* SDL_rpresent_wiiu.c: whether TV and DRC output were enabled
    gx2,          \* history: how often the scan buffers were swapped and the outputs enabled
    tex,          \* a texture, the rectangle and the pixels it is updated with
    texLast,      \* history: the last texture call and what it called
    ticks,        \* the timer's start and ticks_started
    clock,        \* what OSGetSystemTime returns now
    ticksLog,     \* history: the timer calls since the last SDL_TicksQuit, oldest first
    toRegion      \* a call of detail::to_region: its arguments and what it returned

vars == <<variant, kb, nn, last, event_buffer, kbd, lock, thr, log, logLast,
          tvDrcEnabled, gx2, tex, texLast, ticks, clock, ticksLog, toRegion>>
swkbdVars == <<variant, kb, nn>>
kbdVars == <<event_buffer, kbd>>
lockVars == <<lock, thr>>
logVars == <<log, logLast>>
coreVars == <<swkbdVars, last, kbdVars, lockVars>>
\* what the software keyboard, the key buffer and the spinlock never touch
presentVars == <<tvDrcEnabled, gx2>>
texVars == <<tex, texLast>>
ticksVars == <<ticks, clock, ticksLog>>
regionVars == <<toRegion>>
sysVars == <<logVars, presentVars, texVars, ticksVars, regionVars>>

NULL == "NULL"
\* A nullable string or an optional value that is not a pointer: None or Some(x).
None == <<>>
Some(x) == <<x>>

(***************************************************************************)
(* Inputs the model draws from.                                            *)
(***************************************************************************)

\* Three windows: one created with SDL_WINDOW_WIIU_TV_ONLY, one with
\* SDL_WINDOW_WIIU_GAMEPAD_ONLY, one with neither.
Windows == {"winTV", "winDRC", "winPad"}
WindowFlags(w) ==
    IF w = "winTV" THEN {"SDL_WINDOW_WIIU_TV_ONLY"}
    ELSE IF w = "winPad" THEN {"SDL_WINDOW_WIIU_GAMEPAD_ONLY"}
    ELSE {}

Regions == {"Japan", "USA", "Europe", "China", "Korea", "Taiwan"}
\* What read_system_region() can find on the console the model runs on.
SystemRegionInputs == {"Taiwan"}

States == {"Hidden", "FadeIn", "Visible", "FadeOut"}

\* nn::swkbd::CreateArg objects an application may hand to SDL_WiiUSetSWKBDCreateArg.
CreateArgAt(p) ==
    IF p = "createArgOwn"
    THEN [regionType |-> "Japan", fsClient |-> "userFsClient", workMemory |-> "userWorkMemory"]
    ELSE IF p = "createArgOwnFs"
    THEN [regionType |-> "USA", fsClient |-> "userFsClient", workMemory |-> NULL]
    ELSE [regionType |-> "USA", fsClient |-> NULL, workMemory |-> NULL]
CreateArgInputs == {NULL, "createArgOwn", "createArgOwnFs", "createArgBare"}

\* nn::swkbd::CreateArg{}: the defaults of a value-initialised argument.
DefaultCreateArg == [regionType |-> "Europe", fsClient |-> NULL, workMemory |-> NULL]

\* nn::swkbd::AppearArg{}: the defaults of a value-initialised argument.
DefaultAppearArg ==
    [languageType |-> "Japanese", layout |-> 0, keyboardMode |-> "Full",
     okString |-> None, showWordSuggestions |-> TRUE, drawSysWiiPointer |-> TRUE,
     initialText |-> None, hintText |-> None, passwordMode |-> "Clear",
     higlightInitialText |-> FALSE, showCopyPasteButtons |-> FALSE,
     controllerType |-> "WiiRemote0"]
AppearArgAt(p) == [DefaultAppearArg EXCEPT !.languageType = "English", !.keyboardMode = "NNID"]
AppearArgInputs == {NULL, "appearArgUser"}

\* Locale strings, as the sequence of their characters.
LocaleInputs == {None, Some(<<"j", "a", "_", "J", "P">>), Some(<<"z", "z">>)}

\* UTF-8 texts (byte sequences) handed to the text setters: "OK" and an invalid byte.
TextInputs == {None, Some(<<79, 75>>), Some(<<255>>)}
\* UTF-16 strings nn::swkbd::GetInputFormString can return: none, "hi", a lone surrogate.
FormStringInputs == {None, Some(<<104, 105>>), Some(<<55296>>)}

(***************************************************************************)
(* Text conversion (SDL_iconv_string between UTF-8 and UTF-16BE).          *)
(***************************************************************************)
\* Both conversions give None where SDL_iconv_string returns NULL.
RECURSIVE Utf8ToUtf16(_)
Utf8ToUtf16(b) ==
    IF b = <<>> THEN Some(<<>>)
    ELSE IF b[1] < 128
         THEN LET r == Utf8ToUtf16(Tail(b)) IN IF r = None THEN None ELSE Some(<<b[1]>> \o r[1])
    ELSE IF b[1] >= 194 /\ b[1] < 224 /\ Len(b) >= 2 /\ b[2] >= 128 /\ b[2] < 192
         THEN LET r == Utf8ToUtf16(Tail(Tail(b)))
              IN IF r = None THEN None ELSE Some(<<(b[1] - 192) * 64 + (b[2] - 128)>> \o r[1])
    ELSE None

RECURSIVE Utf16ToUtf8(_)
Utf16ToUtf8(u) ==
    IF u = <<>> THEN Some(<<>>)
    ELSE IF u[1] >= 55296 /\ u[1] < 57344 THEN None
    ELSE LET r == Utf16ToUtf8(Tail(u))
             c == u[1]
         IN IF r = None THEN None
            ELSE IF c < 128 THEN Some(<<c>> \o r[1])
            ELSE IF c < 2048 THEN Some(<<192 + (c \div 64), 128 + (c % 64)>> \o r[1])
            ELSE Some(<<224 + (c \div 4096), 128 + ((c \div 64) % 64), 128 + (c % 64)>> \o r[1])

(***************************************************************************)
(* Locale parsing and region negotiation.                                  *)
(***************************************************************************)
Lower == {"a", "b", "c", "d", "e", "f", "g", "h", "i", "j", "k", "l", "m",
          "n", "o", "p", "q", "r", "s", "t", "u", "v", "w", "x", "y", "z"}
Upper == {"A", "B", "C", "D", "E", "F", "G", "H", "I", "J", "K", "L", "M",
          "N", "O", "P", "Q", "R", "S", "T", "U", "V", "W", "X", "Y", "Z"}

RECURSIVE Join(_)
Join(cs) == IF cs = <<>> THEN "" ELSE cs[1] \o Join(Tail(cs))

\* The longest prefix of cs, of at most n characters, drawn from set.
RECURSIVE ScanSet(_, _, _)
ScanSet(cs, set, n) ==
    IF n = 0 \/ cs = <<>> \/ cs[1] \notin set THEN <<>>
    ELSE <<cs[1]>> \o ScanSet(Tail(cs), set, n - 1)

\* SDL_sscanf(locale, "%2[Ca-z]_%2[A-Z]", language, country): <<r, language, country>>.
ScanLocale(cs) ==
    LET Country(rest) ==
            IF rest # <<>> /\ rest[1] = "_" THEN ScanSet(Tail(rest), Upper, 2) ELSE <<>>
        Converted(lang, ctry) ==
            IF lang = <<>> THEN <<0, "", "">>
            ELSE IF ctry = <<>> THEN <<1, Join(lang), "">>
            ELSE <<2, Join(lang), Join(ctry)>>
        Language(lang) == Converted(lang, Country(SubSeq(cs, Len(lang) + 1, Len(cs))))
    IN Language(ScanSet(cs, Lower \cup {"C"}, 2))

\* parse_locale on the characters of a locale: the <<language, country>> pair;
\* "" stands for the empty or null string.
ParsedLocale(cs) ==
    LET Pair(r) == IF r[1] = 2 THEN <<r[2], r[3]>>
                   ELSE IF r[1] = 1 THEN <<r[2], "">>
                   ELSE <<"", "">>
    IN Pair(ScanLocale(cs))

\* parse_locale of the exception-based variant: the locale is a string, maybe empty.
parse_locale_exc(locale) == IF locale = <<>> THEN <<"", "">> ELSE ParsedLocale(locale)

\* parse_locale of the enable-flag variant: the locale is a nullable C string.
parse_locale_flag(locale) == IF locale = None THEN <<"", "">> ELSE ParsedLocale(locale[1])

usa_countries == {"US", "CA", "MX", "BR"}
eur_countries == {"DE", "ES", "FR", "GB", "IT", "NL", "PT", "RU"}
eur_languages == {"de", "es", "fr", "it", "nl", "pt", "ru"}

\* A faulty to_region: the language decides before the country.
to_region_languageFirst(language, country) ==
    IF language = "ja" THEN "Japan"
    ELSE IF language = "en" THEN "USA"
    ELSE IF language \in eur_languages THEN "Europe"
    ELSE IF country = "JP" THEN "Japan"
    ELSE IF country \in usa_countries THEN "USA"
    ELSE IF country \in eur_countries THEN "Europe"
    ELSE NULL

\* to_region: the region for a language/country pair, NULL for std::nullopt.
to_region(language, country) ==
    IF country = "JP" THEN "Japan"
    ELSE IF country \in usa_countries THEN "USA"
    ELSE IF country \in eur_countries THEN "Europe"
    ELSE IF language = "ja" THEN "Japan"
    ELSE IF language = "en" THEN "USA"
    ELSE IF language \in eur_languages THEN "Europe"
    ELSE NULL

\* to_language: the keyboard language for a language code, NULL for std::nullopt.
to_language(language, country) ==
    CASE language = "ja" -> "Japanese"
      [] language = "en" -> "English"
      [] language = "fr" -> "French"
      [] language = "de" -> "German"
      [] language = "it" -> "Italian"
      [] language = "es" -> "Spanish"
      [] language = "nl" -> "Dutch"
      [] language = "pt" -> "Portuguese"
      [] language = "ru" -> "Russian"
      [] OTHER -> NULL

to_keyboard_layout(language, region) ==
    CASE language = "Japanese" -> 0
      [] language = "English" -> IF region = "USA" THEN 1 ELSE 5
      [] language = "French" -> IF region = "USA" THEN 2 ELSE 6
      [] language = "German" -> 7
      [] language = "Italian" -> 8
      [] language = "Spanish" -> IF region = "USA" THEN 3 ELSE 9
      [] language = "Dutch" -> 10
      [] language = "Portuguese" -> IF region = "USA" THEN 4 ELSE 11
      [] language = "Russian" -> 12
      [] OTHER -> 19


(***************************************************************************)
(* A public call is computed on a machine record m:                        *)
(*   m.kb   the detail:: globals          m.nn  the vendor library         *)
(*   m.out  the vendor/SDL calls it made  m.bad the nn::swkbd functions it *)
(*          called while create::created was false                         *)
(*   m.ret  what it returned                                               *)
(***************************************************************************)
Machine(k, n) == [kb |-> k, nn |-> n, out |-> <<>>, bad |-> {}, ret |-> NULL]

Out(m, e) == [m EXCEPT !.out = Append(@, e)]

\* Functions of nn::swkbd that need no keyboard.
NoKeyboardNeeded == {"GetWorkMemorySize", "Create"}

\* Every call into nn::swkbd passes here: it notes a call made without a keyboard.
NNCall(m, fn) ==
    IF m.kb.created \/ fn \in NoKeyboardNeeded THEN m ELSE [m EXCEPT !.bad = @ \cup {fn}]

(***************************************************************************)
(* The vendor library, as far as the glue depends on it. Without a         *)
(* keyboard its answers are undefined: the caller supplies any (ub).       *)
(***************************************************************************)
nn_Create(m, arg, ok) ==
    LET m1 == Out(NNCall(m, "Create"), <<"Create", arg>>)
    IN IF ok THEN [m1 EXCEPT !.nn.exists = TRUE, !.nn.state = "Hidden"] ELSE m1

nn_Destroy(m) ==
    [Out(NNCall(m, "Destroy"), <<"Destroy">>) EXCEPT !.nn.exists = FALSE, !.nn.state = "Hidden"]

\* Calc runs the fade animations: a fade may end in this frame (adv).
nn_Calc(m, info, adv) ==
    LET m1 == Out(NNCall(m, "Calc"), <<"Calc", info>>)
        st == m1.nn.state
    IN IF m1.nn.exists /\ adv
       THEN [m1 EXCEPT !.nn.state = CASE st = "FadeIn" -> "Visible"
                                      [] st = "FadeOut" -> "Hidden"
                                      [] OTHER -> st]
       ELSE m1

nn_AppearInputForm(m, arg) ==
    LET m1 == Out(NNCall(m, "AppearInputForm"), <<"AppearInputForm", arg>>)
    IN IF m1.nn.exists /\ m1.nn.state = "Hidden" THEN [m1 EXCEPT !.nn.state = "FadeIn"] ELSE m1

nn_DisappearInputForm(m) ==
    LET m1 == Out(NNCall(m, "DisappearInputForm"), <<"DisappearInputForm">>)
    IN IF m1.nn.exists /\ m1.nn.state \in {"FadeIn", "Visible"}
       THEN [m1 EXCEPT !.nn.state = "FadeOut"] ELSE m1

nn_GetWorkMemorySize(m) == Out(NNCall(m, "GetWorkMemorySize"), <<"GetWorkMemorySize">>)

\* The value GetStateInputForm returns in machine m.
nn_GetStateInputForm(m, ub) == IF m.nn.exists THEN m.nn.state ELSE ub

\* The user can decide (OK or Cancel) only on a visible input form.
nn_IsDecide(m, pressed) == m.nn.exists /\ m.nn.state = "Visible" /\ pressed

\* IsDecideOkButton / IsDecideCancelButton, noted with the answer it gives.
nn_IsDecideButton(m, fn, pressed) == Out(NNCall(m, fn), <<fn, nn_IsDecide(m, pressed)>>)

\* read_system_region / get_region_from_system: read once, then cached.
get_region_from_system(m) ==
    IF m.kb.cached_system_region = NULL
    THEN [m EXCEPT !.kb.cached_system_region = m.nn.systemRegion]
    ELSE m

\* read_system_language / get_language_from_system: read once, then cached.
get_language_from_system(m) ==
    IF m.kb.cached_system_language = NULL
    THEN [m EXCEPT !.kb.cached_system_language = m.nn.systemLanguage]
    ELSE m

\* The nn::swkbd::CreateArg WIIU_SWKBD_Initialize starts from, for the parsed locale
\* loc, in a machine whose system region is already cached where it is needed.
CreateArgOf(m, loc) ==
    IF m.kb.create_customArg # NULL THEN CreateArgAt(m.kb.create_customArg)
    ELSE LET reg == to_region(loc[1], loc[2])
         IN [DefaultCreateArg EXCEPT
                !.regionType = IF reg # NULL THEN reg ELSE m.kb.cached_system_region]

\* Whether WIIU_SWKBD_Initialize has to ask the system for the region.
NeedsSystemRegion(m, loc) ==
    m.kb.create_customArg = NULL /\ to_region(loc[1], loc[2]) = NULL


(***************************************************************************)
(* The exception-based variant (SDL_wiiu_swkbd.cpp).                       *)
(* e is what the environment decides during the call: e.fsOk (the FS       *)
(* client can be made), e.memOk (the work memory can be allocated),        *)
(* e.createOk (nn::swkbd::Create succeeds), ...                            *)
(***************************************************************************)
\* A faulty WIIU_SWKBD_Initialize: when nn::swkbd::Create fails, the FS client and
\* the work memory go back to the globals.
WIIU_SWKBD_Initialize_keepsOnFailure(m, e) ==
    IF m.kb.created THEN m
    ELSE
    LET \* from the chosen nn::swkbd::CreateArg to the end of the function
        Create(m1, arg) ==
            LET hadFs == m1.kb.fsClient
                hadMem == m1.kb.workMemory
                \* local_fsClient = std::move(create::fsClient)
                m2 == [m1 EXCEPT !.kb.fsClient = FALSE]
                fsThrows == arg.fsClient = NULL /\ ~hadFs /\ ~e.fsOk
                \* local_workMemory = std::move(create::workMemory)
                m3 == [m2 EXCEPT !.kb.workMemory = FALSE]
                m4 == IF arg.workMemory = NULL THEN nn_GetWorkMemorySize(m3) ELSE m3
                memThrows == arg.workMemory = NULL /\ ~hadMem /\ ~e.memOk
                full == [arg EXCEPT
                           !.fsClient = IF @ = NULL THEN "internalFsClient" ELSE @,
                           !.workMemory = IF @ = NULL THEN "internalWorkMemory" ELSE @]
                m5 == nn_Create(m4, full, e.createOk)
            IN IF fsThrows
               THEN Out(m2, <<"SDL_LogError", "WIIU_SWKBD_Initialize() failed">>)
               ELSE IF memThrows
               THEN Out(m4, <<"SDL_LogError", "WIIU_SWKBD_Initialize() failed">>)
               ELSE IF ~e.createOk
               THEN [Out(m5, <<"SDL_LogError", "nn::swkbd::Create() failed">>)
                        EXCEPT !.kb.fsClient = hadFs \/ arg.fsClient = NULL,
                               !.kb.workMemory = hadMem \/ arg.workMemory = NULL]
               ELSE [m5 EXCEPT !.kb.workMemory = (arg.workMemory = NULL),
                               !.kb.fsClient = (arg.fsClient = NULL),
                               !.kb.region = arg.regionType,
                               !.kb.created = TRUE]
        \* the region is taken from the system where the locale names none
        Region(m1, loc) == Create(m1, CreateArgOf(m1, loc))
        Locale(m0, loc) ==
            Region(IF NeedsSystemRegion(m0, loc) THEN get_region_from_system(m0) ELSE m0, loc)
    IN Locale([m EXCEPT !.kb.fsLib = TRUE], parse_locale_exc(m.kb.swkbdLocale))

WIIU_SWKBD_Initialize_exc(m, e) ==
    IF m.kb.created THEN m
    ELSE
    LET \* from the chosen nn::swkbd::CreateArg to the end of the function
        Create(m1, arg) ==
            LET hadFs == m1.kb.fsClient
                hadMem == m1.kb.workMemory
                \* local_fsClient = std::move(create::fsClient)
                m2 == [m1 EXCEPT !.kb.fsClient = FALSE]
                fsThrows == arg.fsClient = NULL /\ ~hadFs /\ ~e.fsOk
                \* local_workMemory = std::move(create::workMemory)
                m3 == [m2 EXCEPT !.kb.workMemory = FALSE]
                m4 == IF arg.workMemory = NULL THEN nn_GetWorkMemorySize(m3) ELSE m3
                memThrows == arg.workMemory = NULL /\ ~hadMem /\ ~e.memOk
                full == [arg EXCEPT
                           !.fsClient = IF @ = NULL THEN "internalFsClient" ELSE @,
                           !.workMemory = IF @ = NULL THEN "internalWorkMemory" ELSE @]
                m5 == nn_Create(m4, full, e.createOk)
            IN IF fsThrows
               THEN Out(m2, <<"SDL_LogError", "WIIU_SWKBD_Initialize() failed">>)
               ELSE IF memThrows
               THEN Out(m4, <<"SDL_LogError", "WIIU_SWKBD_Initialize() failed">>)
               ELSE IF ~e.createOk
               THEN Out(m5, <<"SDL_LogError", "nn::swkbd::Create() failed">>)
               ELSE [m5 EXCEPT !.kb.workMemory = (arg.workMemory = NULL),
                               !.kb.fsClient = (arg.fsClient = NULL),
                               !.kb.region = arg.regionType,
                               !.kb.created = TRUE]
        \* the region is taken from the system where the locale names none
        Region(m1, loc) == Create(m1, CreateArgOf(m1, loc))
        Locale(m0, loc) ==
            Region(IF NeedsSystemRegion(m0, loc) THEN get_region_from_system(m0) ELSE m0, loc)
    IN Locale([m EXCEPT !.kb.fsLib = TRUE], parse_locale_exc(m.kb.swkbdLocale))

WIIU_SWKBD_Finalize_exc(m) ==
    IF ~m.kb.created THEN m
    ELSE [nn_Destroy(m) EXCEPT !.kb.window = NULL, !.kb.region = NULL, !.kb.created = FALSE]

WIIU_SWKBD_HideScreenKeyboard_exc(m) ==
    IF ~m.kb.created THEN m
    ELSE [nn_DisappearInputForm(m) EXCEPT !.kb.window = NULL]

\* The nn::swkbd::ControllerInfo with no controller data attached: vpad tells
\* whether the pointer to detail::vpad is set, kpad holds the channels whose
\* pointer to detail::kpad[channel] is set.
NoControllerInfo == [vpad |-> FALSE, kpad |-> {}]

\* The controller samples the application hands over.
PadInputs == {"sampleA", "sampleB"}

\* The controller data nn::swkbd::Calc reads through detail::controllerInfo.
ControllerData(k) ==
    [vpad |-> IF k.controllerInfo.vpad THEN Some(k.vpad) ELSE None,
     kpad |-> [c \in k.controllerInfo.kpad |-> k.kpad[c]]]

\* SDL_SendSysWMEvent(&wmMsg) with wmMsg.msg.wiiu.event = ev.
SendSysWMEvent(m, ev) == Out(m, <<"SDL_SendSysWMEvent", ev>>)

WIIU_SWKBD_Calc_exc(m, e) ==
    IF ~m.kb.created THEN m
    ELSE
    LET m1 == [nn_Calc(m, m.kb.controllerInfo, e.adv) EXCEPT !.kb.controllerInfo = NoControllerInfo]
        m2 == NNCall(m1, "IsNeedCalcSubThreadFont")
        m3 == IF e.needFont THEN NNCall(m2, "CalcSubThreadFont") ELSE m2
        m4 == NNCall(m3, "IsNeedCalcSubThreadPredict")
        m5 == IF e.needPredict THEN NNCall(m4, "CalcSubThreadPredict") ELSE m4
        m6 == IF m5.kb.window # NULL
              THEN LET g == NNCall(m5, "GetStateInputForm")
                   IN IF nn_GetStateInputForm(g, e.ub) = "Hidden"
                      THEN [g EXCEPT !.kb.window = NULL] ELSE g
              ELSE m5
        m7 == nn_IsDecideButton(m6, "IsDecideOkButton", e.ok)
        ok == nn_IsDecide(m7, e.ok)
        m8 == NNCall(m7, "GetInputFormString")
        str8 == IF e.str = None THEN None ELSE Utf16ToUtf8(e.str[1])
        m9 == IF e.str = None THEN m8
              ELSE IF str8 # None THEN Out(m8, <<"SDL_SendKeyboardText", str8[1]>>)
              ELSE Out(m8, <<"SDL_LogError", "could not convert utf-16 to utf-8">>)
        m10 == IF ok
               THEN SendSysWMEvent(WIIU_SWKBD_HideScreenKeyboard_exc(m9),
                                   "SDL_WIIU_SYSWM_SWKBD_OK_EVENT")
               ELSE m7
        m11 == nn_IsDecideButton(m10, "IsDecideCancelButton", e.cancel)
    IN IF nn_IsDecide(m11, e.cancel)
       THEN SendSysWMEvent(WIIU_SWKBD_HideScreenKeyboard_exc(m11),
                           "SDL_WIIU_SYSWM_SWKBD_CANCEL_EVENT")
       ELSE m11

WIIU_SWKBD_Draw_exc(m, window, e) ==
    IF window # m.kb.window THEN m
    ELSE LET m1 == NNCall(m, "GetStateInputForm")
         IN IF nn_GetStateInputForm(m1, e.ub) = "Hidden" THEN m1
            ELSE IF "SDL_WINDOW_WIIU_TV_ONLY" \in WindowFlags(window)
                 THEN Out(NNCall(m1, "DrawTV"), <<"DrawTV">>)
                 ELSE Out(NNCall(m1, "DrawDRC"), <<"DrawDRC">>)

WIIU_SWKBD_HasScreenKeyboardSupport_exc(m) == [m EXCEPT !.ret = TRUE]

\* The customisation of one appearance, as the namespace appear initialises it.
\* A text is <<>> when it is empty (exception-based variant: a u16string) or null
\* (enable-flag variant: a pointer, None or Some(string)).
DefaultCustomization ==
    [keyboardMode |-> "Full", okText |-> <<>>, showWordSuggestions |-> TRUE,
     initialText |-> <<>>, hintText |-> <<>>, passwordMode |-> "Clear",
     highlightInitialText |-> FALSE, showCopyPasteButtons |-> FALSE,
     drawWiiPointer |-> TRUE]

\* The nn::swkbd::AppearArg built from the customisation for the parsed locale loc,
\* but for its texts, in a machine whose system language is already cached where
\* it is needed.
BuildAppearArg(m, loc) ==
    LET Arg(language, c) ==
            [DefaultAppearArg EXCEPT
               !.languageType = language,
               !.layout = to_keyboard_layout(language,
                             IF m.kb.region # NULL THEN m.kb.region ELSE "Europe"),
               !.keyboardMode = c.keyboardMode,
               !.showWordSuggestions = c.showWordSuggestions,
               !.drawSysWiiPointer = c.drawWiiPointer,
               !.passwordMode = c.passwordMode,
               !.higlightInitialText = c.highlightInitialText,
               !.showCopyPasteButtons = c.showCopyPasteButtons]
        Language(lang) == IF lang # NULL THEN lang ELSE m.kb.cached_system_language
    IN Arg(Language(to_language(loc[1], loc[2])), m.kb.custom)

NeedsSystemLanguage(m, loc) ==
    m.kb.appear_customArg = NULL /\ to_language(loc[1], loc[2]) = NULL

ControllerTypeOf(window) ==
    IF "SDL_WINDOW_WIIU_TV_ONLY" \in WindowFlags(window) THEN "WiiRemote0" ELSE "DrcGamepad"

WIIU_SWKBD_ShowScreenKeyboard_exc(m, window, e) ==
    LET \* from the chosen nn::swkbd::AppearArg to the end of the function
        Appear(m3, arg0) ==
            [nn_AppearInputForm(m3, [arg0 EXCEPT !.controllerType = ControllerTypeOf(window)])
                EXCEPT !.kb.custom = DefaultCustomization]
        Texts(arg, c) ==
            [arg EXCEPT
               !.okString = IF c.okText # <<>> THEN Some(c.okText) ELSE @,
               !.initialText = IF c.initialText # <<>> THEN Some(c.initialText) ELSE @,
               !.hintText = IF c.hintText # <<>> THEN Some(c.hintText) ELSE @]
        Language(m3, loc) ==
            Appear(m3, IF m3.kb.appear_customArg # NULL
                       THEN AppearArgAt(m3.kb.appear_customArg)
                       ELSE Texts(BuildAppearArg(m3, loc), m3.kb.custom))
        \* the language is taken from the system where the locale names none
        Locale(m2, loc) ==
            Language(IF NeedsSystemLanguage(m2, loc) THEN get_language_from_system(m2) ELSE m2,
                     loc)
        Window(m1) == IF m1.kb.window = NULL THEN [m1 EXCEPT !.kb.window = window] ELSE m1
    IN Locale(Window(WIIU_SWKBD_Initialize_exc(m, e)), parse_locale_exc(m.kb.swkbdLocale))

\* A faulty WIIU_SWKBD_IsScreenKeyboardShown: the window is not compared with the owner.
WIIU_SWKBD_IsScreenKeyboardShown_anyWindow(m, window, e) ==
    IF ~m.kb.created THEN [m EXCEPT !.ret = FALSE]
    ELSE [NNCall(m, "GetStateInputForm") EXCEPT
             !.ret = (nn_GetStateInputForm(m, e.ub) # "Hidden")]

WIIU_SWKBD_IsScreenKeyboardShown_exc(m, window, e) ==
    IF ~m.kb.created THEN [m EXCEPT !.ret = FALSE]
    ELSE IF window # m.kb.window THEN [m EXCEPT !.ret = FALSE]
    ELSE [NNCall(m, "GetStateInputForm") EXCEPT
             !.ret = (nn_GetStateInputForm(m, e.ub) # "Hidden")]


\* A faulty setter: the argument is stored, the keyboard is not finalized.
SDL_WiiUSetSWKBDCreateArg_noFinalize(m, arg) == [m EXCEPT !.kb.create_customArg = arg]

SDL_WiiUSetSWKBDCreateArg_exc(m, arg) ==
    WIIU_SWKBD_Finalize_exc([m EXCEPT !.kb.create_customArg = arg])

SDL_WiiUSetSWKBDAppearArg_exc(m, arg) == [m EXCEPT !.kb.appear_customArg = arg]

\* SDL_WiiUSWKBDKeyboardMode values and the nn::swkbd::KeyboardMode each selects.
KeyboardModeInputs ==
    {"SDL_WIIU_SWKBD_KEYBOARD_MODE_FULL", "SDL_WIIU_SWKBD_KEYBOARD_MODE_NUMPAD",
     "SDL_WIIU_SWKBD_KEYBOARD_MODE_NNID", "invalid"}

SDL_WiiUSetSWKBDKeyboardMode_exc(m, mode) ==
    CASE mode = "SDL_WIIU_SWKBD_KEYBOARD_MODE_FULL" -> [m EXCEPT !.kb.custom.keyboardMode = "Full"]
      [] mode = "SDL_WIIU_SWKBD_KEYBOARD_MODE_NUMPAD" -> [m EXCEPT !.kb.custom.keyboardMode = "Numpad"]
      [] mode = "SDL_WIIU_SWKBD_KEYBOARD_MODE_RESTRICTED" -> [m EXCEPT !.kb.custom.keyboardMode = "Utf8"]
      [] mode = "SDL_WIIU_SWKBD_KEYBOARD_MODE_NNID" -> [m EXCEPT !.kb.custom.keyboardMode = "NNID"]
      [] OTHER -> Out(m, <<"SDL_LogError", "set swkbd keyboard mode failed">>)

\* to_utf16 throws where the conversion fails; the setter catches, logs and keeps
\* the old text.
SDL_WiiUSetSWKBDOKLabel_exc(m, label) ==
    IF label = None THEN [m EXCEPT !.kb.custom.okText = <<>>]
    ELSE LET r == Utf8ToUtf16(label[1])
         IN IF r = None THEN Out(m, <<"SDL_LogError", "set swkbd OK label failed">>)
            ELSE [m EXCEPT !.kb.custom.okText = r[1]]

SDL_WiiUSetSWKBDShowWordSuggestions_exc(m, show) ==
    [m EXCEPT !.kb.custom.showWordSuggestions = show]

SDL_WiiUSetSWKBDInitialText_exc(m, text) ==
    IF text = None THEN [m EXCEPT !.kb.custom.initialText = <<>>]
    ELSE LET r == Utf8ToUtf16(text[1])
         IN IF r = None THEN Out(m, <<"SDL_LogError", "set swkbd initial text failed">>)
            ELSE [m EXCEPT !.kb.custom.initialText = r[1]]

SDL_WiiUSetSWKBDHintText_exc(m, text) ==
    IF text = None THEN [m EXCEPT !.kb.custom.hintText = <<>>]
    ELSE LET r == Utf8ToUtf16(text[1])
         IN IF r = None THEN Out(m, <<"SDL_LogError", "set swkbd hint text failed">>)
            ELSE [m EXCEPT !.kb.custom.hintText = r[1]]

PasswordModeInputs ==
    {"SDL_WIIU_SWKBD_PASSWORD_MODE_SHOW", "SDL_WIIU_SWKBD_PASSWORD_MODE_HIDE", "invalid"}

SDL_WiiUSetSWKBDPasswordMode_exc(m, mode) ==
    CASE mode = "SDL_WIIU_SWKBD_PASSWORD_MODE_SHOW" -> [m EXCEPT !.kb.custom.passwordMode = "Clear"]
      [] mode = "SDL_WIIU_SWKBD_PASSWORD_MODE_HIDE" -> [m EXCEPT !.kb.custom.passwordMode = "Hide"]
      [] mode = "SDL_WIIU_SWKBD_PASSWORD_MODE_FADE" -> [m EXCEPT !.kb.custom.passwordMode = "Fade"]
      [] OTHER -> Out(m, <<"SDL_LogError", "set swkbd password failed">>)

SDL_WiiUSetSWKBDHighlightInitialText_exc(m, highlight) ==
    [m EXCEPT !.kb.custom.highlightInitialText = highlight]

SDL_WiiUSetSWKBDShowCopyPasteButtons_exc(m, show) ==
    [m EXCEPT !.kb.custom.showCopyPasteButtons = show]

SDL_WiiUSetSWKBDDrawWiiPointer_exc(m, draw) ==
    [m EXCEPT !.kb.custom.drawWiiPointer = draw]

\* locale is None for a null pointer, Some(characters) otherwise; the stored
\* locale is a string, empty when there is none.
SDL_WiiUSetSWKBDLocale_exc(m, locale) ==
    IF locale # None /\ locale[1] = m.kb.swkbdLocale THEN m
    ELSE IF locale = None /\ m.kb.swkbdLocale = <<>> THEN m
    ELSE [WIIU_SWKBD_Finalize_exc(m) EXCEPT
             !.kb.swkbdLocale = IF locale # None THEN locale[1] ELSE <<>>]

SDL_WiiUSetSWKBDVPAD_exc(m, vpad, e) ==
    IF ~m.kb.created THEN [m EXCEPT !.ret = FALSE]
    ELSE LET m1 == NNCall(m, "GetStateInputForm")
         IN IF nn_GetStateInputForm(m1, e.ub) # "Visible" THEN [m1 EXCEPT !.ret = FALSE]
            ELSE [m1 EXCEPT !.kb.vpad = vpad, !.kb.controllerInfo.vpad = TRUE, !.ret = TRUE]

\* Channels handed to SDL_WiiUSetSWKBDKPAD: the ends of the valid range and one
\* beyond each.
ChannelInputs == {-1, 0, 3, 4}

\* A faulty SDL_WiiUSetSWKBDKPAD: the channel is not checked.
SDL_WiiUSetSWKBDKPAD_anyChannel(m, channel, kpad, e) ==
    IF ~m.kb.created THEN [m EXCEPT !.ret = FALSE]
    ELSE LET m1 == NNCall(m, "GetStateInputForm")
         IN IF nn_GetStateInputForm(m1, e.ub) # "Visible" THEN [m1 EXCEPT !.ret = FALSE]
            ELSE [m1 EXCEPT !.kb.kpad[channel] = kpad,
                            !.kb.controllerInfo.kpad = @ \cup {channel}, !.ret = TRUE]

SDL_WiiUSetSWKBDKPAD_exc(m, channel, kpad, e) ==
    IF ~m.kb.created THEN [m EXCEPT !.ret = FALSE]
    ELSE IF channel < 0 \/ channel > 3 THEN [m EXCEPT !.ret = FALSE]
    ELSE LET m1 == NNCall(m, "GetStateInputForm")
         IN IF nn_GetStateInputForm(m1, e.ub) # "Visible" THEN [m1 EXCEPT !.ret = FALSE]
            ELSE [m1 EXCEPT !.kb.kpad[channel] = kpad,
                            !.kb.controllerInfo.kpad = @ \cup {channel}, !.ret = TRUE]


(***************************************************************************)
(* The enable-flag variant: no exceptions, a failed allocation or          *)
(* conversion gives a null pointer; SDL_WiiUSetSWKBDEnabled switches the   *)
(* keyboard off and frees what it holds.                                   *)
(***************************************************************************)
WIIU_SWKBD_Initialize_flag(m, e) ==
    IF m.kb.created THEN m
    ELSE IF ~m.kb.enabled THEN m
    ELSE
    LET \* from the chosen nn::swkbd::CreateArg to the end of the function
        Create(m1, arg) ==
            LET hadFs == m1.kb.fsClient
                \* local_fsClient = std::move(create::fsClient)
                m2 == [m1 EXCEPT !.kb.fsClient = FALSE]
                fsFails == arg.fsClient = NULL /\ ~hadFs /\ ~e.fsOk
                \* local_workMemory = std::move(create::workMemory)
                m3 == [m2 EXCEPT !.kb.workMemory = FALSE]
                m4 == IF arg.workMemory = NULL THEN nn_GetWorkMemorySize(m3) ELSE m3
                memFails == arg.workMemory = NULL /\ ~e.memOk
                full == [arg EXCEPT
                           !.fsClient = IF @ = NULL THEN "internalFsClient" ELSE @,
                           !.workMemory = IF @ = NULL THEN "internalWorkMemory" ELSE @]
                m5 == nn_Create(m4, full, e.createOk)
            IN IF fsFails
               THEN Out(m2, <<"SDL_LogError", "Could not create FSClientfor nn::swkbd">>)
               ELSE IF memFails
               THEN Out(m4, <<"SDL_LogError", "Could not allocate memory for nn::swkbd">>)
               ELSE IF ~e.createOk
               THEN Out(m5, <<"SDL_LogError", "nn::swkbd::Create() failed">>)
               ELSE [m5 EXCEPT !.kb.workMemory = (arg.workMemory = NULL),
                               !.kb.fsClient = (arg.fsClient = NULL),
                               !.kb.region = arg.regionType,
                               !.kb.created = TRUE]
        \* the region is taken from the system where the locale names none
        Region(m1, loc) == Create(m1, CreateArgOf(m1, loc))
        Locale(m0, loc) ==
            Region(IF NeedsSystemRegion(m0, loc) THEN get_region_from_system(m0) ELSE m0, loc)
    IN Locale([m EXCEPT !.kb.fsLib = TRUE], parse_locale_flag(m.kb.swkbdLocale))

WIIU_SWKBD_Finalize_flag(m) ==
    IF ~m.kb.created THEN m
    ELSE [nn_Destroy(m) EXCEPT !.kb.window = NULL, !.kb.region = NULL, !.kb.created = FALSE]

\* A faulty create::cleanup: the work memory is not freed.
cleanup_keepsWorkMemory(m) == [m EXCEPT !.kb.region = NULL, !.kb.fsClient = FALSE]

\* create::cleanup
cleanup(m) == [m EXCEPT !.kb.region = NULL, !.kb.fsClient = FALSE, !.kb.workMemory = FALSE]

WIIU_SWKBD_HideScreenKeyboard_flag(m) ==
    IF ~m.kb.created THEN m ELSE nn_DisappearInputForm(m)

\* The events WIIU_SWKBD_Calc posts around the confirmed text.
OkStart(m) == SendSysWMEvent(m, "SDL_WIIU_SYSWM_SWKBD_OK_START_EVENT")
\* A faulty finish: posted only after a text was sent.
OkFinish_onlyAfterText(m) ==
    IF m.out # <<>> /\ m.out[Len(m.out)][1] = "SDL_SendKeyboardText"
    THEN SendSysWMEvent(m, "SDL_WIIU_SYSWM_SWKBD_OK_FINISH_EVENT")
    ELSE m
OkFinish(m) == SendSysWMEvent(m, "SDL_WIIU_SYSWM_SWKBD_OK_FINISH_EVENT")

WIIU_SWKBD_Calc_flag(m, e) ==
    IF ~m.kb.created THEN m
    ELSE IF ~m.kb.enabled THEN m
    ELSE
    LET m1 == [nn_Calc(m, m.kb.controllerInfo, e.adv) EXCEPT !.kb.controllerInfo = NoControllerInfo]
        m2 == NNCall(m1, "IsNeedCalcSubThreadFont")
        m3 == IF e.needFont THEN NNCall(m2, "CalcSubThreadFont") ELSE m2
        m4 == NNCall(m3, "IsNeedCalcSubThreadPredict")
        m5 == IF e.needPredict THEN NNCall(m4, "CalcSubThreadPredict") ELSE m4
        m6 == IF m5.kb.window # NULL
              THEN LET g == NNCall(m5, "GetStateInputForm")
                   IN IF nn_GetStateInputForm(g, e.ub) = "Hidden"
                      THEN [g EXCEPT !.kb.window = NULL] ELSE g
              ELSE m5
        m7 == nn_IsDecideButton(m6, "IsDecideOkButton", e.ok)
        ok == nn_IsDecide(m7, e.ok)
        m8 == NNCall(OkStart(m7), "GetInputFormString")
        str8 == IF e.str = None THEN None ELSE Utf16ToUtf8(e.str[1])
        m9 == IF e.str = None THEN m8
              ELSE IF str8 # None THEN Out(m8, <<"SDL_SendKeyboardText", str8[1]>>)
              ELSE Out(m8, <<"SDL_LogError", "could not convert utf-16 to utf-8">>)
        m10 == IF ok THEN OkFinish(m9) ELSE m7
        m11 == nn_IsDecideButton(m10, "IsDecideCancelButton", e.cancel)
    IN IF nn_IsDecide(m11, e.cancel)
       THEN SendSysWMEvent(WIIU_SWKBD_HideScreenKeyboard_flag(m11),
                           "SDL_WIIU_SYSWM_SWKBD_CANCEL_EVENT")
       ELSE m11

WIIU_SWKBD_Draw_flag(m, window, e) ==
    IF window # m.kb.window THEN m
    ELSE IF ~m.kb.enabled THEN m
    ELSE LET m1 == NNCall(m, "GetStateInputForm")
         IN IF nn_GetStateInputForm(m1, e.ub) = "Hidden" THEN m1
            ELSE IF "SDL_WINDOW_WIIU_TV_ONLY" \in WindowFlags(window)
                 THEN Out(NNCall(m1, "DrawTV"), <<"DrawTV">>)
                 ELSE Out(NNCall(m1, "DrawDRC"), <<"DrawDRC">>)

WIIU_SWKBD_HasScreenKeyboardSupport_flag(m) == [m EXCEPT !.ret = m.kb.enabled]

\* A faulty appear::reset: the texts are left as they were.
reset_keepsTexts(m) ==
    [m EXCEPT !.kb.custom = [DefaultCustomization EXCEPT !.okText = m.kb.custom.okText,
                                                         !.initialText = m.kb.custom.initialText,
                                                         !.hintText = m.kb.custom.hintText]]

\* appear::reset
reset(m) == [m EXCEPT !.kb.custom = DefaultCustomization]

WIIU_SWKBD_ShowScreenKeyboard_flag(m, window, e) ==
    IF ~m.kb.enabled THEN m
    ELSE
    LET \* from the chosen nn::swkbd::AppearArg to the end of the function
        Appear(m3, arg) == reset(nn_AppearInputForm(m3, arg))
        Texts(arg, c) ==
            [arg EXCEPT
               !.okString = IF c.okText # None THEN c.okText ELSE @,
               !.initialText = IF c.initialText # None THEN c.initialText ELSE @,
               !.hintText = IF c.hintText # None THEN c.hintText ELSE @,
               !.controllerType = ControllerTypeOf(window)]
        Language(m3, loc) ==
            Appear(m3, IF m3.kb.appear_customArg # NULL
                       THEN AppearArgAt(m3.kb.appear_customArg)
                       ELSE Texts(BuildAppearArg(m3, loc), m3.kb.custom))
        \* the language is taken from the system where the locale names none
        Locale(m2, loc) ==
            Language(IF NeedsSystemLanguage(m2, loc) THEN get_language_from_system(m2) ELSE m2,
                     loc)
        Window(m1) == IF m1.kb.window = NULL THEN [m1 EXCEPT !.kb.window = window] ELSE m1
    IN Locale(Window(WIIU_SWKBD_Initialize_flag(m, e)), parse_locale_flag(m.kb.swkbdLocale))

WIIU_SWKBD_IsScreenKeyboardShown_flag(m, window, e) ==
    IF ~m.kb.created THEN [m EXCEPT !.ret = FALSE]
    ELSE IF window # m.kb.window THEN [m EXCEPT !.ret = FALSE]
    ELSE [NNCall(m, "GetStateInputForm") EXCEPT
             !.ret = (nn_GetStateInputForm(m, e.ub) # "Hidden")]

SDL_WiiUSetSWKBDEnabled(m, enabled) ==
    IF m.kb.enabled # enabled
    THEN LET m1 == [m EXCEPT !.kb.enabled = enabled]
         IN IF ~m1.kb.enabled THEN cleanup(WIIU_SWKBD_Finalize_flag(m1)) ELSE m1
    ELSE m

SDL_WiiUSetSWKBDCreateArg_flag(m, arg) ==
    WIIU_SWKBD_Finalize_flag([m EXCEPT !.kb.create_customArg = arg])

SDL_WiiUSetSWKBDAppearArg_flag(m, arg) == [m EXCEPT !.kb.appear_customArg = arg]

SDL_WiiUSetSWKBDKeyboardMode_flag(m, mode) ==
    CASE mode = "SDL_WIIU_SWKBD_KEYBOARD_MODE_FULL" -> [m EXCEPT !.kb.custom.keyboardMode = "Full"]
      [] mode = "SDL_WIIU_SWKBD_KEYBOARD_MODE_NUMPAD" -> [m EXCEPT !.kb.custom.keyboardMode = "Numpad"]
      [] mode = "SDL_WIIU_SWKBD_KEYBOARD_MODE_RESTRICTED" -> [m EXCEPT !.kb.custom.keyboardMode = "Utf8"]
      [] mode = "SDL_WIIU_SWKBD_KEYBOARD_MODE_NNID" -> [m EXCEPT !.kb.custom.keyboardMode = "NNID"]
      [] OTHER -> Out(m, <<"SDL_LogError", "set swkbd keyboard mode failed">>)

\* to_utf16 of the enable-flag variant: null for a null input or a failed conversion.
to_utf16_flag(input) == IF input = None THEN None ELSE Utf8ToUtf16(input[1])

SDL_WiiUSetSWKBDOKLabel_flag(m, label) == [m EXCEPT !.kb.custom.okText = to_utf16_flag(label)]

SDL_WiiUSetSWKBDShowWordSuggestions_flag(m, show) ==
    [m EXCEPT !.kb.custom.showWordSuggestions = show]

SDL_WiiUSetSWKBDInitialText_flag(m, text) ==
    [m EXCEPT !.kb.custom.initialText = to_utf16_flag(text)]

SDL_WiiUSetSWKBDHintText_flag(m, text) == [m EXCEPT !.kb.custom.hintText = to_utf16_flag(text)]

SDL_WiiUSetSWKBDPasswordMode_flag(m, mode) ==
    CASE mode = "SDL_WIIU_SWKBD_PASSWORD_MODE_SHOW" -> [m EXCEPT !.kb.custom.passwordMode = "Clear"]
      [] mode = "SDL_WIIU_SWKBD_PASSWORD_MODE_HIDE" -> [m EXCEPT !.kb.custom.passwordMode = "Hide"]
      [] mode = "SDL_WIIU_SWKBD_PASSWORD_MODE_FADE" -> [m EXCEPT !.kb.custom.passwordMode = "Fade"]
      [] OTHER -> Out(m, <<"SDL_LogError", "set swkbd password failed">>)

SDL_WiiUSetSWKBDHighlightInitialText_flag(m, highlight) ==
    [m EXCEPT !.kb.custom.highlightInitialText = highlight]

SDL_WiiUSetSWKBDShowCopyPasteButtons_flag(m, show) ==
    [m EXCEPT !.kb.custom.showCopyPasteButtons = show]

SDL_WiiUSetSWKBDDrawWiiPointer_flag(m, draw) ==
    [m EXCEPT !.kb.custom.drawWiiPointer = draw]

\* A faulty comparison: only two null pointers are equal.
RawStringEquals_nullOnly(a, b) == a = None /\ b = None

\* detail::operator==(const raw_string &, const char *): both null, or the same text.
RawStringEquals(a, b) ==
    IF a = None /\ b = None THEN TRUE
    ELSE IF a = None \/ b = None THEN FALSE
    ELSE a[1] = b[1]

SDL_WiiUSetSWKBDLocale_flag(m, locale) ==
    IF RawStringEquals(m.kb.swkbdLocale, locale) THEN m
    ELSE [WIIU_SWKBD_Finalize_flag(m) EXCEPT !.kb.swkbdLocale = locale]

SDL_WiiUSetSWKBDVPAD_flag(m, vpad, e) ==
    IF ~m.kb.created THEN [m EXCEPT !.ret = FALSE]
    ELSE LET m1 == NNCall(m, "GetStateInputForm")
         IN IF nn_GetStateInputForm(m1, e.ub) # "Visible" THEN [m1 EXCEPT !.ret = FALSE]
            ELSE [m1 EXCEPT !.kb.vpad = vpad, !.kb.controllerInfo.vpad = TRUE, !.ret = TRUE]

SDL_WiiUSetSWKBDKPAD_flag(m, channel, kpad, e) ==
    IF ~m.kb.created THEN [m EXCEPT !.ret = FALSE]
    ELSE IF channel < 0 \/ channel > 3 THEN [m EXCEPT !.ret = FALSE]
    ELSE LET m1 == NNCall(m, "GetStateInputForm")
         IN IF nn_GetStateInputForm(m1, e.ub) # "Visible" THEN [m1 EXCEPT !.ret = FALSE]
            ELSE [m1 EXCEPT !.kb.kpad[channel] = kpad,
                            !.kb.controllerInfo.kpad = @ \cup {channel}, !.ret = TRUE]


(***************************************************************************)
(* State machine.                                                          *)
(***************************************************************************)
Variants == {"exc", "flag"}

InitKb(v) ==
    LET common ==
          [created |-> FALSE, create_customArg |-> NULL, fsClient |-> FALSE,
           workMemory |-> FALSE, region |-> NULL, appear_customArg |-> NULL,
           window |-> NULL, custom |-> DefaultCustomization, swkbdLocale |-> <<>>,
           controllerInfo |-> NoControllerInfo, fsLib |-> FALSE,
           vpad |-> NULL, kpad |-> [c \in 0 .. 3 |-> NULL],
           cached_system_region |-> NULL, cached_system_language |-> NULL]
    IN IF v = "flag" THEN [enabled |-> TRUE] @@ common ELSE common

NoCall == [op |-> "none", args |-> <<>>, ret |-> NULL, out |-> <<>>, bad |-> {}]

\* What the environment may decide during a call.
EnvCreate == [fsOk : BOOLEAN, memOk : BOOLEAN, createOk : BOOLEAN]
EnvState == [ub : States]
EnvCalc ==
    {e \in [adv : BOOLEAN, needFont : BOOLEAN, needPredict : BOOLEAN, ok : BOOLEAN,
            cancel : BOOLEAN, str : FormStringInputs, ub : {"Hidden"}] :
        \* the input form's string is read only after a decision, and a decision
        \* needs a form that is visible or becomes so in this frame
        /\ ~e.ok => e.str = None
        /\ nn.state \notin {"FadeIn", "Visible"} => ~e.ok /\ ~e.cancel}

\* A public call of the software keyboard, made on the main thread, that took the
\* machine to m.
Step(op, args, m) ==
    /\ kbd.pump = "idle"
    /\ kb' = m.kb
    /\ nn' = m.nn
    /\ last' = [op |-> op, args |-> args, ret |-> m.ret, out |-> m.out, bad |-> m.bad]
    /\ UNCHANGED <<variant, kbdVars, lockVars, sysVars>>

\* The application customises at most MaxCustomized settings of one appearance.
MaxCustomized == 3
Customized(k) ==
    Cardinality({f \in DOMAIN k.custom : k.custom[f] # DefaultCustomization[f]})
        + (IF k.appear_customArg # NULL THEN 1 ELSE 0)

\* A call of a setter that customises the next appearance.
Customize(op, args, m) == Customized(kb) < MaxCustomized /\ Step(op, args, m)

Call_WIIU_SWKBD_Initialize ==
    \E e \in EnvCreate :
        Step("WIIU_SWKBD_Initialize", <<>>,
             IF variant = "exc"
             THEN WIIU_SWKBD_Initialize_exc(Machine(kb, nn), e)
             ELSE WIIU_SWKBD_Initialize_flag(Machine(kb, nn), e))

Call_WIIU_SWKBD_Finalize ==
    Step("WIIU_SWKBD_Finalize", <<>>,
         IF variant = "exc"
         THEN WIIU_SWKBD_Finalize_exc(Machine(kb, nn))
         ELSE WIIU_SWKBD_Finalize_flag(Machine(kb, nn)))

Call_WIIU_SWKBD_Calc ==
    \E e \in EnvCalc :
        Step("WIIU_SWKBD_Calc", <<>>,
             IF variant = "exc"
             THEN WIIU_SWKBD_Calc_exc(Machine(kb, nn), e)
             ELSE WIIU_SWKBD_Calc_flag(Machine(kb, nn), e))

Call_WIIU_SWKBD_Draw ==
    \E window \in Windows, e \in EnvState :
        Step("WIIU_SWKBD_Draw", <<window>>,
             IF variant = "exc"
             THEN WIIU_SWKBD_Draw_exc(Machine(kb, nn), window, e)
             ELSE WIIU_SWKBD_Draw_flag(Machine(kb, nn), window, e))

Call_WIIU_SWKBD_HasScreenKeyboardSupport ==
    Step("WIIU_SWKBD_HasScreenKeyboardSupport", <<>>,
         IF variant = "exc"
         THEN WIIU_SWKBD_HasScreenKeyboardSupport_exc(Machine(kb, nn))
         ELSE WIIU_SWKBD_HasScreenKeyboardSupport_flag(Machine(kb, nn)))

Call_WIIU_SWKBD_ShowScreenKeyboard ==
    \E window \in Windows, e \in EnvCreate :
        Step("WIIU_SWKBD_ShowScreenKeyboard", <<window>>,
             IF variant = "exc"
             THEN WIIU_SWKBD_ShowScreenKeyboard_exc(Machine(kb, nn), window, e)
             ELSE WIIU_SWKBD_ShowScreenKeyboard_flag(Machine(kb, nn), window, e))

Call_WIIU_SWKBD_HideScreenKeyboard ==
    Step("WIIU_SWKBD_HideScreenKeyboard", <<>>,
         IF variant = "exc"
         THEN WIIU_SWKBD_HideScreenKeyboard_exc(Machine(kb, nn))
         ELSE WIIU_SWKBD_HideScreenKeyboard_flag(Machine(kb, nn)))

Call_WIIU_SWKBD_IsScreenKeyboardShown ==
    \E window \in Windows \cup {NULL}, e \in EnvState :
        Step("WIIU_SWKBD_IsScreenKeyboardShown", <<window>>,
             IF variant = "exc"
             THEN WIIU_SWKBD_IsScreenKeyboardShown_exc(Machine(kb, nn), window, e)
             ELSE WIIU_SWKBD_IsScreenKeyboardShown_flag(Machine(kb, nn), window, e))

Call_SDL_WiiUSetSWKBDEnabled ==
    /\ variant = "flag"
    /\ \E enabled \in BOOLEAN :
         Step("SDL_WiiUSetSWKBDEnabled", <<enabled>>, SDL_WiiUSetSWKBDEnabled(Machine(kb, nn), enabled))

Call_SDL_WiiUSetSWKBDCreateArg ==
    \E arg \in CreateArgInputs :
        Step("SDL_WiiUSetSWKBDCreateArg", <<arg>>,
             IF variant = "exc"
             THEN SDL_WiiUSetSWKBDCreateArg_exc(Machine(kb, nn), arg)
             ELSE SDL_WiiUSetSWKBDCreateArg_flag(Machine(kb, nn), arg))

Call_SDL_WiiUSetSWKBDAppearArg ==
    \E arg \in AppearArgInputs :
        Customize("SDL_WiiUSetSWKBDAppearArg", <<arg>>,
             IF variant = "exc"
             THEN SDL_WiiUSetSWKBDAppearArg_exc(Machine(kb, nn), arg)
             ELSE SDL_WiiUSetSWKBDAppearArg_flag(Machine(kb, nn), arg))

Call_SDL_WiiUSetSWKBDKeyboardMode ==
    \E mode \in KeyboardModeInputs :
        Customize("SDL_WiiUSetSWKBDKeyboardMode", <<mode>>,
             IF variant = "exc"
             THEN SDL_WiiUSetSWKBDKeyboardMode_exc(Machine(kb, nn), mode)
             ELSE SDL_WiiUSetSWKBDKeyboardMode_flag(Machine(kb, nn), mode))

Call_SDL_WiiUSetSWKBDOKLabel ==
    \E label \in TextInputs :
        Customize("SDL_WiiUSetSWKBDOKLabel", <<label>>,
             IF variant = "exc"
             THEN SDL_WiiUSetSWKBDOKLabel_exc(Machine(kb, nn), label)
             ELSE SDL_WiiUSetSWKBDOKLabel_flag(Machine(kb, nn), label))

Call_SDL_WiiUSetSWKBDShowWordSuggestions ==
    \E show \in BOOLEAN :
        Customize("SDL_WiiUSetSWKBDShowWordSuggestions", <<show>>,
             IF variant = "exc"
             THEN SDL_WiiUSetSWKBDShowWordSuggestions_exc(Machine(kb, nn), show)
             ELSE SDL_WiiUSetSWKBDShowWordSuggestions_flag(Machine(kb, nn), show))

Call_SDL_WiiUSetSWKBDInitialText ==
    \E text \in TextInputs :
        Customize("SDL_WiiUSetSWKBDInitialText", <<text>>,
             IF variant = "exc"
             THEN SDL_WiiUSetSWKBDInitialText_exc(Machine(kb, nn), text)
             ELSE SDL_WiiUSetSWKBDInitialText_flag(Machine(kb, nn), text))

Call_SDL_WiiUSetSWKBDHintText ==
    \E text \in TextInputs :
        Customize("SDL_WiiUSetSWKBDHintText", <<text>>,
             IF variant = "exc"
             THEN SDL_WiiUSetSWKBDHintText_exc(Machine(kb, nn), text)
             ELSE SDL_WiiUSetSWKBDHintText_flag(Machine(kb, nn), text))

Call_SDL_WiiUSetSWKBDPasswordMode ==
    \E mode \in PasswordModeInputs :
        Customize("SDL_WiiUSetSWKBDPasswordMode", <<mode>>,
             IF variant = "exc"
             THEN SDL_WiiUSetSWKBDPasswordMode_exc(Machine(kb, nn), mode)
             ELSE SDL_WiiUSetSWKBDPasswordMode_flag(Machine(kb, nn), mode))

Call_SDL_WiiUSetSWKBDHighlightInitialText ==
    \E highlight \in BOOLEAN :
        Customize("SDL_WiiUSetSWKBDHighlightInitialText", <<highlight>>,
             IF variant = "exc"
             THEN SDL_WiiUSetSWKBDHighlightInitialText_exc(Machine(kb, nn), highlight)
             ELSE SDL_WiiUSetSWKBDHighlightInitialText_flag(Machine(kb, nn), highlight))

Call_SDL_WiiUSetSWKBDShowCopyPasteButtons ==
    \E show \in BOOLEAN :
        Customize("SDL_WiiUSetSWKBDShowCopyPasteButtons", <<show>>,
             IF variant = "exc"
             THEN SDL_WiiUSetSWKBDShowCopyPasteButtons_exc(Machine(kb, nn), show)
             ELSE SDL_WiiUSetSWKBDShowCopyPasteButtons_flag(Machine(kb, nn), show))

Call_SDL_WiiUSetSWKBDDrawWiiPointer ==
    \E draw \in BOOLEAN :
        Customize("SDL_WiiUSetSWKBDDrawWiiPointer", <<draw>>,
             IF variant = "exc"
             THEN SDL_WiiUSetSWKBDDrawWiiPointer_exc(Machine(kb, nn), draw)
             ELSE SDL_WiiUSetSWKBDDrawWiiPointer_flag(Machine(kb, nn), draw))

Call_SDL_WiiUSetSWKBDLocale ==
    \E locale \in LocaleInputs :
        Step("SDL_WiiUSetSWKBDLocale", <<locale>>,
             IF variant = "exc"
             THEN SDL_WiiUSetSWKBDLocale_exc(Machine(kb, nn), locale)
             ELSE SDL_WiiUSetSWKBDLocale_flag(Machine(kb, nn), locale))

Call_SDL_WiiUSetSWKBDVPAD ==
    \E vpad \in PadInputs, e \in EnvState :
        Step("SDL_WiiUSetSWKBDVPAD", <<vpad>>,
             IF variant = "exc"
             THEN SDL_WiiUSetSWKBDVPAD_exc(Machine(kb, nn), vpad, e)
             ELSE SDL_WiiUSetSWKBDVPAD_flag(Machine(kb, nn), vpad, e))

Call_SDL_WiiUSetSWKBDKPAD ==
    \E channel \in ChannelInputs, kpad \in PadInputs, e \in EnvState :
        Step("SDL_WiiUSetSWKBDKPAD", <<channel, kpad>>,
             IF variant = "exc"
             THEN SDL_WiiUSetSWKBDKPAD_exc(Machine(kb, nn), channel, kpad, e)
             ELSE SDL_WiiUSetSWKBDKPAD_flag(Machine(kb, nn), channel, kpad, e))

\* The calls that create, show, drive and destroy the keyboard.
NextSwkbd ==
    \/ Call_WIIU_SWKBD_Initialize
    \/ Call_WIIU_SWKBD_Finalize
    \/ Call_WIIU_SWKBD_Calc
    \/ Call_WIIU_SWKBD_Draw
    \/ Call_WIIU_SWKBD_HasScreenKeyboardSupport
    \/ Call_WIIU_SWKBD_ShowScreenKeyboard
    \/ Call_WIIU_SWKBD_HideScreenKeyboard
    \/ Call_WIIU_SWKBD_IsScreenKeyboardShown
    \/ Call_SDL_WiiUSetSWKBDCreateArg
    \/ Call_SDL_WiiUSetSWKBDLocale
    \/ Call_SDL_WiiUSetSWKBDEnabled

\* The calls that hand controller data to the keyboard.
NextPad ==
    \/ Call_SDL_WiiUSetSWKBDVPAD
    \/ Call_SDL_WiiUSetSWKBDKPAD

\* The setters that customise the next appearance.
NextCustomize ==
    \/ Call_SDL_WiiUSetSWKBDAppearArg
    \/ Call_SDL_WiiUSetSWKBDKeyboardMode
    \/ Call_SDL_WiiUSetSWKBDOKLabel
    \/ Call_SDL_WiiUSetSWKBDShowWordSuggestions
    \/ Call_SDL_WiiUSetSWKBDInitialText
    \/ Call_SDL_WiiUSetSWKBDHintText
    \/ Call_SDL_WiiUSetSWKBDPasswordMode
    \/ Call_SDL_WiiUSetSWKBDHighlightInitialText
    \/ Call_SDL_WiiUSetSWKBDShowCopyPasteButtons
    \/ Call_SDL_WiiUSetSWKBDDrawWiiPointer

(***************************************************************************)
(* The physical keyboard: KBD callbacks fill event_buffer (on whatever     *)
(* thread the system calls back from), the main thread's pump drains it.   *)
(***************************************************************************)
EVENT_BUFFER_SIZE == 10

\* A KBDKeyEvent, and the zero-initialised one the static buffer starts with.
KeyEvent(down, hid, ch) == [isPressedDown |-> down, hidCode |-> hid, asUTF16Character |-> ch]
ZeroEvent == KeyEvent(FALSE, 0, 0)
\* The key events the driver reports: 'a' pressed and released.
KeyEventInputs == {KeyEvent(TRUE, 4, 97), KeyEvent(FALSE, 4, 97)}

InitEventBuffer == [events |-> [i \in 0 .. EVENT_BUFFER_SIZE - 1 |-> ZeroEvent], current |-> 0]

\* kbd.left is the number of key events the driver will still report: None while
\* it is not limited.
InitKbd == [mutex |-> NULL, cb |-> "idle", e |-> ZeroEvent, left |-> None,
            pump |-> "idle", shown |-> FALSE, i |-> 0, sent |-> <<>>]

\* A faulty store: the test for room is off by one.
StoreKeyEvent_offByOne(buf, e) ==
    IF buf.current <= EVENT_BUFFER_SIZE
    THEN [events |-> (buf.current :> e) @@ buf.events, current |-> buf.current + 1]
    ELSE buf

\* The store of SDL_WIIUKeyboard_KeyCallback: events[current++] = *e, if there is room.
\* A store past the array shows as an index outside 0 .. EVENT_BUFFER_SIZE - 1.
StoreKeyEvent(buf, e) ==
    IF buf.current < EVENT_BUFFER_SIZE
    THEN [events |-> (buf.current :> e) @@ buf.events, current |-> buf.current + 1]
    ELSE buf

\* SDL_WIIUKeyboard_KeyCallback, entered with event e: lock, store, unlock.
KeyCallback_Lock ==
    /\ kbd.cb = "idle"
    /\ kbd.mutex = NULL
    /\ kbd.left # Some(0)
    /\ \E e \in KeyEventInputs :
         kbd' = [kbd EXCEPT !.mutex = "callback", !.cb = "locked", !.e = e,
                            !.left = IF @ = None THEN None ELSE Some(@[1] - 1)]
    /\ UNCHANGED <<swkbdVars, last, event_buffer, lockVars, sysVars>>

KeyCallback_Store ==
    /\ kbd.cb = "locked"
    /\ event_buffer' = StoreKeyEvent(event_buffer, kbd.e)
    /\ kbd' = [kbd EXCEPT !.cb = "unlock"]
    /\ UNCHANGED <<swkbdVars, last, lockVars, sysVars>>

KeyCallback_Unlock ==
    /\ kbd.cb = "unlock"
    /\ kbd' = [kbd EXCEPT !.mutex = NULL, !.cb = "idle", !.e = ZeroEvent]
    /\ UNCHANGED <<swkbdVars, last, event_buffer, lockVars, sysVars>>

\* The UTF-8 bytes WIIU_SendKeyEventText sends for a UCS-2 symbol (without the
\* trailing zero bytes), or None for the private symbols it ignores.
WIIU_SendKeyEventText(symbol) ==
    IF (symbol >= 57344 /\ symbol <= 63743) \/ symbol = 65535 THEN None
    ELSE IF symbol < 128 THEN Some(<<symbol>>)
    ELSE IF symbol < 2048 THEN Some(<<192 + (symbol \div 64), 128 + (symbol % 64)>>)
    ELSE Some(<<224 + (symbol \div 4096), 128 + ((symbol \div 64) % 64), 128 + (symbol % 64)>>)

\* A faulty iteration: the text is sent for releases too.
PumpOne_textAlways(ev, i) ==
    LET key == <<"SDL_SendKeyboardKey", i,
                 IF ev.isPressedDown THEN "SDL_PRESSED" ELSE "SDL_RELEASED", ev.hidCode>>
        text == WIIU_SendKeyEventText(ev.asUTF16Character)
    IN IF text # None
       THEN <<key, <<"SDL_SendKeyboardText", i, text[1]>>>>
       ELSE <<key>>

\* The SDL calls one iteration of the pump's loop makes for events[i].
PumpOne(ev, i) ==
    LET key == <<"SDL_SendKeyboardKey", i,
                 IF ev.isPressedDown THEN "SDL_PRESSED" ELSE "SDL_RELEASED", ev.hidCode>>
        text == WIIU_SendKeyEventText(ev.asUTF16Character)
    IN IF ev.isPressedDown /\ text # None
       THEN <<key, <<"SDL_SendKeyboardText", i, text[1]>>>>
       ELSE <<key>>

\* WIIU_SWKBD_IsScreenKeyboardShown(NULL, NULL), as the pump asks it.
PumpSeesKeyboardShown ==
    IF variant = "exc"
    THEN WIIU_SWKBD_IsScreenKeyboardShown_exc(Machine(kb, nn), NULL, [ub |-> "Hidden"]).ret
    ELSE WIIU_SWKBD_IsScreenKeyboardShown_flag(Machine(kb, nn), NULL, [ub |-> "Hidden"]).ret

\* SDL_WIIU_PumpKeyboardEvents on the main thread: lock, ask whether the software
\* keyboard is shown, loop over the buffered events, reset the buffer, unlock.
Pump_Lock ==
    /\ kbd.pump = "idle"
    /\ kbd.mutex = NULL
    /\ kbd' = [kbd EXCEPT !.mutex = "pump", !.pump = "check", !.sent = <<>>]
    /\ UNCHANGED <<swkbdVars, last, event_buffer, lockVars, sysVars>>

Pump_Check ==
    /\ kbd.pump = "check"
    /\ kbd' = [kbd EXCEPT !.shown = PumpSeesKeyboardShown, !.i = 0,
                          !.pump = IF PumpSeesKeyboardShown THEN "reset" ELSE "loop"]
    /\ UNCHANGED <<swkbdVars, last, event_buffer, lockVars, sysVars>>

Pump_Loop ==
    /\ kbd.pump = "loop"
    /\ IF kbd.i < event_buffer.current
       THEN kbd' = [kbd EXCEPT !.sent = @ \o PumpOne(event_buffer.events[kbd.i], kbd.i),
                               !.i = @ + 1]
       ELSE kbd' = [kbd EXCEPT !.pump = "reset"]
    /\ UNCHANGED <<swkbdVars, last, event_buffer, lockVars, sysVars>>

Pump_Reset ==
    /\ kbd.pump = "reset"
    /\ event_buffer' = [event_buffer EXCEPT !.current = 0]
    /\ kbd' = [kbd EXCEPT !.pump = "unlock"]
    /\ UNCHANGED <<swkbdVars, last, lockVars, sysVars>>

Pump_Unlock ==
    /\ kbd.pump = "unlock"
    /\ kbd' = [kbd EXCEPT !.mutex = NULL, !.pump = "idle", !.i = 0, !.sent = <<>>,
                          !.shown = FALSE]
    /\ UNCHANGED <<swkbdVars, last, event_buffer, lockVars, sysVars>>

NextKbd ==
    \/ KeyCallback_Lock
    \/ KeyCallback_Store
    \/ KeyCallback_Unlock
    \/ Pump_Lock
    \/ Pump_Check
    \/ Pump_Loop
    \/ Pump_Reset
    \/ Pump_Unlock

(***************************************************************************)
(* The spinlock (SDL_AtomicTryLock, SDL_AtomicLock, SDL_AtomicUnlock).     *)
(***************************************************************************)
NumThreads == 3
Threads == 1 .. NumThreads
\* SDL_AtomicLock pauses this many times before it starts to yield.
SpinPauses == 32

\* A faulty swap: the word is exchanged without being compared.
OSCompareAndSwapAtomic_blind(word, compare, exchange) == [swapped |-> TRUE, word |-> exchange]

\* OSCompareAndSwapAtomic(ptr, compare, exchange): whether it swapped, and the word
\* it leaves.
OSCompareAndSwapAtomic(word, compare, exchange) ==
    IF word = compare THEN [swapped |-> TRUE, word |-> exchange]
    ELSE [swapped |-> FALSE, word |-> word]

\* SDL_AtomicTryLock on a lock holding word: what it returns, and the word it leaves.
SDL_AtomicTryLock(word) ==
    LET r == OSCompareAndSwapAtomic(word, 0, 1) IN [ret |-> r.swapped, word |-> r.word]

\* ret is what the thread's last SDL_AtomicTryLock returned: None or Some(boolean).
InitThr == [t \in Threads |-> [pc |-> "idle", holds |-> FALSE, iterations |-> 0, ret |-> None]]

\* A thread calls SDL_AtomicTryLock once.
TryLock(t) ==
    /\ thr[t].pc = "idle"
    /\ LET r == SDL_AtomicTryLock(lock)
       IN /\ lock' = r.word
          /\ thr' = [thr EXCEPT ![t].ret = Some(r.ret),
                                ![t].holds = thr[t].holds \/ r.ret]
    /\ UNCHANGED <<swkbdVars, last, kbdVars, sysVars>>

\* A thread enters SDL_AtomicLock.
AtomicLock_Enter(t) ==
    /\ thr[t].pc = "idle"
    /\ ~thr[t].holds
    /\ thr' = [thr EXCEPT ![t].pc = "spin", ![t].iterations = 0, ![t].ret = None]
    /\ UNCHANGED <<swkbdVars, last, kbdVars, lock, sysVars>>

\* One turn of the loop of SDL_AtomicLock.
AtomicLock_Spin(t) ==
    /\ thr[t].pc = "spin"
    /\ LET r == SDL_AtomicTryLock(lock)
       IN /\ lock' = r.word
          /\ thr' = IF r.ret
                    THEN [thr EXCEPT ![t].pc = "idle", ![t].holds = TRUE, ![t].iterations = 0]
                    ELSE IF thr[t].iterations < SpinPauses
                    THEN [thr EXCEPT ![t].iterations = @ + 1]
                    ELSE thr
    /\ UNCHANGED <<swkbdVars, last, kbdVars, sysVars>>

\* SDL_AtomicUnlock by the thread that holds the lock.
SDL_AtomicUnlock(word) == 0

AtomicUnlock(t) ==
    /\ thr[t].pc = "idle"
    /\ thr[t].holds
    /\ lock' = SDL_AtomicUnlock(lock)
    /\ thr' = [thr EXCEPT ![t].holds = FALSE, ![t].ret = None]
    /\ UNCHANGED <<swkbdVars, last, kbdVars, sysVars>>

NextLock ==
    \/ \E t \in Threads : TryLock(t)
    \/ \E t \in Threads : AtomicLock_Enter(t)
    \/ \E t \in Threads : AtomicLock_Spin(t)
    \/ \E t \in Threads : AtomicUnlock(t)

(***************************************************************************)
(* SDL_log.c: the per-category priority list, the default priorities and   *)
(* the output function. A priority is its number (VERBOSE 1 ... CRITICAL   *)
(* 6, the index of its prefix in SDL_priority_prefixes); a category is     *)
(* named.                                                                  *)
(***************************************************************************)
SDL_MAX_LOG_MESSAGE_STACK == 256
SDL_NUM_LOG_PRIORITIES == 7
SDL_LOG_PRIORITY_VERBOSE == 1
SDL_LOG_PRIORITY_INFO == 3
SDL_LOG_PRIORITY_WARN == 4
SDL_LOG_PRIORITY_CRITICAL == 6
DEFAULT_PRIORITY == SDL_LOG_PRIORITY_CRITICAL
DEFAULT_ASSERT_PRIORITY == SDL_LOG_PRIORITY_WARN
DEFAULT_APPLICATION_PRIORITY == SDL_LOG_PRIORITY_INFO
DEFAULT_TEST_PRIORITY == SDL_LOG_PRIORITY_VERBOSE

\* One category for each default priority; VIDEO stands for every other one.
Categories ==
    {"SDL_LOG_CATEGORY_APPLICATION", "SDL_LOG_CATEGORY_ASSERT", "SDL_LOG_CATEGORY_TEST",
     "SDL_LOG_CATEGORY_VIDEO"}

\* Priorities an application sets as a threshold.
LevelInputs == {0, 5}
\* The categories messages are logged in.
MessageCategories == {"SDL_LOG_CATEGORY_APPLICATION", "SDL_LOG_CATEGORY_VIDEO"}
\* Priorities of logged messages: the low end of the valid range, WARN, and one
\* beyond each end.
PriorityInputs == {-1, 0, SDL_LOG_PRIORITY_WARN, SDL_NUM_LOG_PRIORITIES}
\* What SDL_vsnprintf returns: an error, a message that fits the stack buffer with
\* its terminator, and the shortest one that does not.
LenInputs == {-1, SDL_MAX_LOG_MESSAGE_STACK - 1, SDL_MAX_LOG_MESSAGE_STACK}
\* SDL_LogOutput is the default output function; NULL is none.
OutputFunctions == {NULL, "SDL_LogOutput"}

\* The most SDL_LogLevel entries the application's memory holds.
MaxLogLevels == 2

\* The file-scope variables; loglevels is the linked list, its head first.
InitLog ==
    [loglevels |-> <<>>,
     default_priority |-> DEFAULT_PRIORITY,
     assert_priority |-> DEFAULT_ASSERT_PRIORITY,
     application_priority |-> DEFAULT_APPLICATION_PRIORITY,
     test_priority |-> DEFAULT_TEST_PRIORITY,
     log_function |-> "SDL_LogOutput",
     log_function_mutex |-> NULL]

\* The result of a call: the variables after it, what it returned, what it called.
LogResult(l, ret, out) == [log |-> l, ret |-> ret, out |-> out]

\* A faulty search: only the head of the list is looked at.
FindLogLevel_headOnly(levels, category) ==
    IF levels # <<>> /\ levels[1].category = category THEN 1 ELSE 0

\* The position of the first entry for category in the list, 0 when there is none.
FindLogLevel(levels, category) ==
    IF \E i \in 1 .. Len(levels) : levels[i].category = category
    THEN CHOOSE i \in 1 .. Len(levels) :
            /\ levels[i].category = category
            /\ \A j \in 1 .. i - 1 : levels[j].category # category
    ELSE 0

SDL_LogInit(l, ok) ==
    IF l.log_function_mutex = NULL /\ ok
    THEN LogResult([l EXCEPT !.log_function_mutex = "mutex"], NULL, <<>>)
    ELSE LogResult(l, NULL, <<>>)

SDL_LogSetAllPriority(l, priority) ==
    LogResult([l EXCEPT
                 !.loglevels = [i \in 1 .. Len(@) |-> [@[i] EXCEPT !.priority = priority]],
                 !.default_priority = priority,
                 !.assert_priority = priority,
                 !.application_priority = priority],
              NULL, <<>>)

SDL_LogSetPriority(l, category, priority, ok) ==
    LET Found(i) ==
            IF i # 0
            THEN LogResult([l EXCEPT !.loglevels[i].priority = priority], NULL, <<>>)
            ELSE IF ok
            THEN LogResult([l EXCEPT !.loglevels =
                                <<[category |-> category, priority |-> priority]>> \o @],
                           NULL, <<<<"SDL_malloc", TRUE>>>>)
            ELSE LogResult(l, NULL, <<<<"SDL_malloc", FALSE>>>>)
    IN Found(FindLogLevel(l.loglevels, category))

SDL_LogGetPriority(l, category) ==
    LET Found(i) ==
            IF i # 0 THEN l.loglevels[i].priority
            ELSE IF category = "SDL_LOG_CATEGORY_TEST" THEN l.test_priority
            ELSE IF category = "SDL_LOG_CATEGORY_APPLICATION" THEN l.application_priority
            ELSE IF category = "SDL_LOG_CATEGORY_ASSERT" THEN l.assert_priority
            ELSE l.default_priority
    IN Found(FindLogLevel(l.loglevels, category))

\* A faulty reset: the per-category entries stay in the list.
SDL_LogResetPriorities_keepsList(l) ==
    LogResult([l EXCEPT
                 !.default_priority = DEFAULT_PRIORITY,
                 !.assert_priority = DEFAULT_ASSERT_PRIORITY,
                 !.application_priority = DEFAULT_APPLICATION_PRIORITY,
                 !.test_priority = DEFAULT_TEST_PRIORITY],
              NULL, <<>>)

SDL_LogResetPriorities(l) ==
    LogResult([l EXCEPT
                 !.loglevels = <<>>,
                 !.default_priority = DEFAULT_PRIORITY,
                 !.assert_priority = DEFAULT_ASSERT_PRIORITY,
                 !.application_priority = DEFAULT_APPLICATION_PRIORITY,
                 !.test_priority = DEFAULT_TEST_PRIORITY],
              NULL, [i \in 1 .. Len(l.loglevels) |-> <<"SDL_free">>])

SDL_LogQuit(l) ==
    LET Destroy(r) == [r EXCEPT !.log.log_function_mutex = NULL]
    IN Destroy(SDL_LogResetPriorities(l))

\* A faulty SDL_LogMessageV: the priority is not compared with the category's.
SDL_LogMessageV_noThreshold(l, category, priority, len, mallocOk, mutexOk) ==
    IF l.log_function = NULL THEN LogResult(l, NULL, <<>>)
    ELSE IF priority < 0 \/ priority >= SDL_NUM_LOG_PRIORITIES THEN LogResult(l, NULL, <<>>)
    ELSE IF len < 0 THEN LogResult(l, NULL, <<>>)
    ELSE LogResult(l, NULL, <<<<"SDL_log_function", category, priority>>>>)

\* len is what SDL_vsnprintf returns for the message, mallocOk whether the buffer
\* for a long message can be allocated, mutexOk whether a mutex can be created.
SDL_LogMessageV(l, category, priority, len, mallocOk, mutexOk) ==
    IF l.log_function = NULL THEN LogResult(l, NULL, <<>>)
    ELSE IF priority < 0 \/ priority >= SDL_NUM_LOG_PRIORITIES THEN LogResult(l, NULL, <<>>)
    ELSE IF priority < SDL_LogGetPriority(l, category) THEN LogResult(l, NULL, <<>>)
    ELSE
    LET Call(l1) ==
            IF len < 0 THEN LogResult(l1, NULL, <<>>)
            ELSE IF len >= SDL_MAX_LOG_MESSAGE_STACK /\ ~mallocOk
            THEN LogResult(l1, NULL, <<<<"SDL_malloc", FALSE>>>>)
            ELSE LogResult(l1, NULL,
                     (IF len >= SDL_MAX_LOG_MESSAGE_STACK
                      THEN <<<<"SDL_malloc", TRUE>>>> ELSE <<>>)
                     \o <<<<"SDL_log_function", category, priority>>>>)
    IN Call(IF l.log_function_mutex = NULL /\ mutexOk
            THEN [l EXCEPT !.log_function_mutex = "mutex"] ELSE l)

SDL_LogSetOutputFunction(l, callback) ==
    LogResult([l EXCEPT !.log_function = callback], NULL, <<>>)

NoLogCall == [op |-> "none", args |-> <<>>, ret |-> NULL, out |-> <<>>, all |-> None]

\* One call: the variables change as the function says; the history keeps the call
\* and, in all, the priority of the last SDL_LogSetAllPriority that no
\* SDL_LogSetPriority or SDL_LogResetPriorities followed.
LogStep(op, args, r) ==
    /\ log' = r.log
    /\ logLast' = [op |-> op, args |-> args, ret |-> r.ret, out |-> r.out,
                   all |-> IF op = "SDL_LogSetAllPriority" THEN Some(args[1])
                           ELSE IF op \in {"SDL_LogSetPriority", "SDL_LogResetPriorities",
                                           "SDL_LogQuit"}
                           THEN None
                           ELSE logLast.all]
    /\ UNCHANGED <<regionVars, coreVars, presentVars, texVars, ticksVars>>

Call_SDL_LogInit ==
    \E ok \in BOOLEAN : LogStep("SDL_LogInit", <<>>, SDL_LogInit(log, ok))

Call_SDL_LogQuit == LogStep("SDL_LogQuit", <<>>, SDL_LogQuit(log))

Call_SDL_LogSetAllPriority ==
    \E priority \in LevelInputs :
        LogStep("SDL_LogSetAllPriority", <<priority>>, SDL_LogSetAllPriority(log, priority))

Call_SDL_LogSetPriority ==
    \E category \in Categories, priority \in LevelInputs, ok \in BOOLEAN :
        /\ ok => Len(log.loglevels) < MaxLogLevels
        /\ LogStep("SDL_LogSetPriority", <<category, priority>>,
                   SDL_LogSetPriority(log, category, priority, ok))

Call_SDL_LogGetPriority ==
    \E category \in Categories :
        LogStep("SDL_LogGetPriority", <<category>>,
                LogResult(log, SDL_LogGetPriority(log, category), <<>>))

Call_SDL_LogResetPriorities ==
    LogStep("SDL_LogResetPriorities", <<>>, SDL_LogResetPriorities(log))

Call_SDL_LogMessageV ==
    \E category \in MessageCategories, priority \in PriorityInputs, len \in LenInputs,
       mallocOk \in BOOLEAN :
        /\ len < SDL_MAX_LOG_MESSAGE_STACK => mallocOk
        /\ LogStep("SDL_LogMessageV", <<category, priority, len>>,
                   SDL_LogMessageV(log, category, priority, len, mallocOk, TRUE))

Call_SDL_LogSetOutputFunction ==
    \E callback \in OutputFunctions :
        LogStep("SDL_LogSetOutputFunction", <<callback>>,
                SDL_LogSetOutputFunction(log, callback))

NextLog ==
    \/ Call_SDL_LogInit
    \/ Call_SDL_LogQuit
    \/ Call_SDL_LogSetAllPriority
    \/ Call_SDL_LogSetPriority
    \/ Call_SDL_LogGetPriority
    \/ Call_SDL_LogResetPriorities
    \/ Call_SDL_LogMessageV
    \/ Call_SDL_LogSetOutputFunction

(***************************************************************************)
(* SDL_rpresent_wiiu.c: WIIU_SDL_RenderPresent. The calls into GX2 and the *)
(* renderer are noted in the order they are made, with those of the        *)
(* software keyboard.                                                      *)
(***************************************************************************)
\* The formats of a window's colour buffer: the one the gamma fix rewrites, and another.
SurfaceFormats ==
    {"GX2_SURFACE_FORMAT_UNORM_R8_G8_B8_A8", "GX2_SURFACE_FORMAT_UNORM_R5_G6_B5"}

\* The most frames the model presents.
MaxFrames == 3

OutAll(m, es) == [m EXCEPT !.out = @ \o es]

\* WIIU_SWKBD_IsScreenKeyboardShown and WIIU_SWKBD_Draw of the linked variant.
WIIU_SWKBD_IsScreenKeyboardShown(m, window, e) ==
    IF variant = "exc" THEN WIIU_SWKBD_IsScreenKeyboardShown_exc(m, window, e)
    ELSE WIIU_SWKBD_IsScreenKeyboardShown_flag(m, window, e)
WIIU_SWKBD_Draw(m, window, e) ==
    IF variant = "exc" THEN WIIU_SWKBD_Draw_exc(m, window, e)
    ELSE WIIU_SWKBD_Draw_flag(m, window, e)

\* A faulty present: the scan buffers are swapped before the colour buffer is copied.
WIIU_SDL_RenderPresent_swapFirst(m, window, format, enabled, e) ==
    LET flags == WindowFlags(window)
    IN OutAll(m, <<<<"GX2SwapScanBuffers">>>>
                 \o (IF "SDL_WINDOW_WIIU_GAMEPAD_ONLY" \notin flags
                     THEN <<<<"GX2CopyColorBufferToScanBuffer", "GX2_SCAN_TARGET_TV">>>>
                     ELSE <<>>)
                 \o (IF "SDL_WINDOW_WIIU_TV_ONLY" \notin flags
                     THEN <<<<"GX2CopyColorBufferToScanBuffer", "GX2_SCAN_TARGET_DRC">>>>
                     ELSE <<>>)
                 \o <<<<"GX2Flush">>, <<"GX2SetContextState", "ctx">>, <<"WIIU_FrameDone">>>>)

\* A faulty present: the outputs are enabled in every frame.
WIIU_SDL_RenderPresent_enableAlways(m, window, format, enabled, e) ==
    LET flags == WindowFlags(window)
    IN OutAll(m, (IF "SDL_WINDOW_WIIU_GAMEPAD_ONLY" \notin flags
                  THEN <<<<"GX2CopyColorBufferToScanBuffer", "GX2_SCAN_TARGET_TV">>>>
                  ELSE <<>>)
                 \o (IF "SDL_WINDOW_WIIU_TV_ONLY" \notin flags
                     THEN <<<<"GX2CopyColorBufferToScanBuffer", "GX2_SCAN_TARGET_DRC">>>>
                     ELSE <<>>)
                 \o <<<<"GX2SwapScanBuffers">>, <<"GX2Flush">>,
                      <<"GX2SetContextState", "ctx">>, <<"WIIU_FrameDone">>,
                      <<"GX2SetTVEnable", "TRUE">>, <<"GX2SetDRCEnable", "TRUE">>>>)

\* window is renderer->window, format the format of its colour buffer, enabled the
\* value of tvDrcEnabled; the machine returned carries the calls made, ret is 0.
WIIU_SDL_RenderPresent(m, window, format, enabled, e) ==
    LET flags == WindowFlags(window)
        SetBuffer(m1, fmt) ==
            OutAll(m1, <<<<"GX2InitColorBufferRegs", fmt>>, <<"GX2SetColorBuffer", fmt>>>>)
        \* the keyboard is drawn with the colour buffer read as sRGB
        Keyboard(m1) ==
            IF format = "GX2_SURFACE_FORMAT_UNORM_R8_G8_B8_A8"
            THEN SetBuffer(WIIU_SWKBD_Draw(
                               SetBuffer(m1, "GX2_SURFACE_FORMAT_SRGB_R8_G8_B8_A8"),
                               window, e),
                           format)
            ELSE WIIU_SWKBD_Draw(m1, window, e)
        Shown(m1) ==
            IF m1.ret THEN Keyboard(Out(m1, <<"GX2SetContextState", NULL>>)) ELSE m1
        Scan(m2) ==
            OutAll(m2, (IF "SDL_WINDOW_WIIU_GAMEPAD_ONLY" \notin flags
                        THEN <<<<"GX2CopyColorBufferToScanBuffer", "GX2_SCAN_TARGET_TV">>>>
                        ELSE <<>>)
                       \o (IF "SDL_WINDOW_WIIU_TV_ONLY" \notin flags
                           THEN <<<<"GX2CopyColorBufferToScanBuffer", "GX2_SCAN_TARGET_DRC">>>>
                           ELSE <<>>)
                       \o <<<<"GX2SwapScanBuffers">>, <<"GX2Flush">>,
                            <<"GX2SetContextState", "ctx">>, <<"WIIU_FrameDone">>>>)
        Enable(m3) ==
            IF ~enabled
            THEN OutAll(m3, <<<<"GX2SetTVEnable", "TRUE">>, <<"GX2SetDRCEnable", "TRUE">>>>)
            ELSE m3
        Return(m4) == [m4 EXCEPT !.ret = 0]
    IN Return(Enable(Scan(Shown(WIIU_SWKBD_IsScreenKeyboardShown(m, window, e)))))

\* How often fn is among the calls out.
Count(out, fn) == Cardinality({i \in 1 .. Len(out) : out[i][1] = fn})

InitGx2 == [swaps |-> 0, tvEnables |-> 0, drcEnables |-> 0]

Call_WIIU_SDL_RenderPresent ==
    \E window \in Windows, format \in SurfaceFormats, e \in EnvState :
        LET Present(m) ==
                /\ kb' = m.kb
                /\ nn' = m.nn
                /\ last' = [op |-> "WIIU_SDL_RenderPresent", args |-> <<window, format>>,
                            ret |-> m.ret, out |-> m.out, bad |-> m.bad]
                /\ tvDrcEnabled' = TRUE
                /\ gx2' = [swaps |-> gx2.swaps + Count(m.out, "GX2SwapScanBuffers"),
                           tvEnables |-> gx2.tvEnables + Count(m.out, "GX2SetTVEnable"),
                           drcEnables |-> gx2.drcEnables + Count(m.out, "GX2SetDRCEnable")]
        IN /\ kbd.pump = "idle"
           /\ gx2.swaps < MaxFrames
           /\ Present(WIIU_SDL_RenderPresent(Machine(kb, nn), window, format, tvDrcEnabled, e))
           /\ UNCHANGED <<regionVars, variant, kbdVars, lockVars, logVars, texVars, ticksVars>>

(***************************************************************************)
(* SDL_rtexture_wiiu.c: locking and updating a texture. Addresses and      *)
(* sizes are numbers of bytes, all far below 2^32: the 32-bit arithmetic   *)
(* of the code does not wrap on them.                                      *)
(***************************************************************************)
DmaThreshold == 5120

\* SDL_BYTESPERPIXEL of the texture formats the model uses (RGB565, RGBA8888).
BytesPerPixelInputs == {2, 4}
\* rect->w and rect->h, in pixels.
WidthInputs == {3, 64}
HeightInputs == {0, 20, 21, 1000}
\* rect->x and rect->y.
OriginInputs == {0, 1}
\* tdata->texture.surface.pitch, in pixels.
SurfacePitchInputs == {3, 64, 128}
\* The bytes between the end of a source row and the start of the next.
SourcePaddingInputs == {0, 4}
\* The address of the application's pixels: a multiple of 8, and not.
SourceInputs == {4096, 4100}
\* What GX2RLockSurfaceEx returns.
PixelBuffer == 8192
\* How often DMAEWaitDone reports a transfer as not done before it reports it done.
MaxDmaRetries == 1

\* A texture, its rectangle and the pixels handed to WIIU_SDL_UpdateTexture.
UpdateInputs ==
    {u \in [BytesPerPixel : BytesPerPixelInputs, w : WidthInputs, h : HeightInputs,
            x : OriginInputs, y : OriginInputs, surfacePitch : SurfacePitchInputs,
            padding : SourcePaddingInputs, pixels : SourceInputs,
            hasForeground : BOOLEAN, inUse : BOOLEAN, retries : 0 .. MaxDmaRetries] :
        u.x + u.w <= u.surfacePitch}

\* The result of a call: the calls it made and what it stored through its pointers.
TexResult(out, pixels, pitch) == [out |-> out, pixels |-> pixels, pitch |-> pitch]

\* u.inUse is what WIIU_TextureInUse answers.
WIIU_SDL_LockTexture(u) ==
    LET dst_pitch == (u.surfacePitch * u.BytesPerPixel)
    IN TexResult((IF u.hasForeground /\ u.inUse THEN <<<<"WIIU_TextureWaitDone">>>> ELSE <<>>)
                 \o <<<<"GX2RLockSurfaceEx">>>>,
                 (PixelBuffer + u.y * dst_pitch + u.x * u.BytesPerPixel),
                 dst_pitch)

WIIU_SDL_UnlockTexture(u) == TexResult(<<<<"GX2RUnlockSurfaceEx">>>>, NULL, NULL)

\* A faulty update: the DMA threshold is not strict.
WIIU_SDL_UpdateTexture_atThreshold(u) ==
    LET length == (u.w * u.BytesPerPixel)
        total_size == (length * u.h)
        Copy(locked) ==
            IF total_size >= DmaThreshold
            THEN <<<<"DCFlushRange", u.pixels, total_size>>,
                   <<"DMAECopyMem", locked.pixels, u.pixels, total_size \div 4>>,
                   <<"DMAEWaitDone", TRUE>>>>
            ELSE <<<<"OSBlockMove", locked.pixels, u.pixels, total_size, TRUE>>>>
        Update(locked) ==
            TexResult(locked.out \o Copy(locked) \o WIIU_SDL_UnlockTexture(u).out, NULL, NULL)
    IN Update(WIIU_SDL_LockTexture(u))

\* pitch is the source pitch: a row and its padding.
WIIU_SDL_UpdateTexture(u) ==
    IF ~u.hasForeground THEN TexResult(<<>>, NULL, NULL)
    ELSE
    LET length == (u.w * u.BytesPerPixel)
        total_size == (length * u.h)
        pitch == length + u.padding
        \* one DMAECopyMem for every DMAEWaitDone, until a wait succeeds
        Dma(dst, n) ==
            [i \in 1 .. 2 * (n + 1) |->
                IF i % 2 = 1
                THEN <<"DMAECopyMem", dst, u.pixels, total_size \div 4>>
                ELSE <<"DMAEWaitDone", i = 2 * (n + 1)>>]
        Rows(dst, dst_pitch) ==
            [row \in 1 .. u.h |->
                <<"OSBlockMove", (dst + (row - 1) * dst_pitch),
                  (u.pixels + (row - 1) * pitch), length, FALSE>>]
        Copy(dst, dst_pitch) ==
            IF length = pitch /\ length = dst_pitch
            THEN IF total_size > DmaThreshold /\ u.pixels % 8 = 0 /\ dst % 8 = 0
                 THEN <<<<"DCFlushRange", u.pixels, total_size>>>> \o Dma(dst, u.retries)
                 ELSE <<<<"OSBlockMove", dst, u.pixels, total_size, TRUE>>>>
            ELSE <<<<"DCFlushRange", u.pixels, total_size>>>>
                 \o Rows(dst, dst_pitch)
                 \o <<<<"DCFlushRange", (dst + u.h * dst_pitch),
                        (dst_pitch * u.h)>>>>
        Update(locked) ==
            TexResult(locked.out \o Copy(locked.pixels, locked.pitch)
                      \o WIIU_SDL_UnlockTexture(u).out, NULL, NULL)
    IN Update(WIIU_SDL_LockTexture(u))

\* texture->access of the textures that are destroyed.
TextureAccessInputs ==
    {"SDL_TEXTUREACCESS_STATIC", "SDL_TEXTUREACCESS_STREAMING", "SDL_TEXTUREACCESS_TARGET"}

\* The textures that are locked and destroyed: one geometry; with or without
\* driver data, bound or not as the draw state's texture and target.
TextureInputs ==
    [BytesPerPixel : {4}, w : {64}, h : {20}, x : OriginInputs, y : {0},
     surfacePitch : {64}, padding : {0}, pixels : {4096}, retries : {0},
     hasForeground : BOOLEAN, inUse : BOOLEAN, access : TextureAccessInputs,
     driverdata : BOOLEAN, drawTexture : BOOLEAN, drawTarget : BOOLEAN,
     destroyed : {FALSE}]

\* The result of WIIU_SDL_DestroyTexture: the calls it made and the texture and
\* draw state it leaves.
DestroyResult(out, u) == [out |-> out, pixels |-> NULL, pitch |-> NULL, tex |-> u]

\* A faulty destroy: the GPU is waited for after the surfaces are released.
WIIU_SDL_DestroyTexture_waitsLast(u) ==
    IF ~u.driverdata THEN DestroyResult(<<>>, u)
    ELSE DestroyResult(
             <<<<"GX2RDestroySurfaceEx", "cbuf">>, <<"GX2RDestroySurfaceEx", "texture">>>>
             \o (IF u.hasForeground /\ u.inUse THEN <<<<"WIIU_TextureWaitDone">>>> ELSE <<>>)
             \o (IF u.hasForeground /\ u.access = "SDL_TEXTUREACCESS_TARGET"
                 THEN <<<<"GX2DrawDone">>>> ELSE <<>>)
             \o <<<<"SDL_free">>>>,
             [u EXCEPT !.drawTexture = FALSE, !.drawTarget = FALSE, !.destroyed = TRUE])

\* u.driverdata is false for a null texture or one without driver data.
WIIU_SDL_DestroyTexture(u) ==
    IF ~u.driverdata THEN DestroyResult(<<>>, u)
    ELSE DestroyResult(
             (IF u.hasForeground /\ u.inUse THEN <<<<"WIIU_TextureWaitDone">>>> ELSE <<>>)
             \o (IF u.hasForeground /\ u.access = "SDL_TEXTUREACCESS_TARGET"
                 THEN <<<<"GX2DrawDone">>>> ELSE <<>>)
             \o <<<<"GX2RDestroySurfaceEx", "cbuf">>, <<"GX2RDestroySurfaceEx", "texture">>,
                  <<"SDL_free">>>>,
             [u EXCEPT !.drawTexture = FALSE, !.drawTarget = FALSE, !.destroyed = TRUE])

NoTexCall == [op |-> "none", args |-> <<>>, out |-> <<>>, pixels |-> NULL, pitch |-> NULL]

TexStep(op, r) ==
    /\ texLast' = [op |-> op, args |-> <<>>, out |-> r.out, pixels |-> r.pixels,
                   pitch |-> r.pitch]
    /\ UNCHANGED <<regionVars, coreVars, logVars, presentVars, tex, ticksVars>>

Call_WIIU_SDL_LockTexture == TexStep("WIIU_SDL_LockTexture", WIIU_SDL_LockTexture(tex))

Call_WIIU_SDL_UnlockTexture == TexStep("WIIU_SDL_UnlockTexture", WIIU_SDL_UnlockTexture(tex))

Call_WIIU_SDL_UpdateTexture == TexStep("WIIU_SDL_UpdateTexture", WIIU_SDL_UpdateTexture(tex))

\* A texture with driver data that was not destroyed is locked and unlocked.
Call_WIIU_SDL_LockSurface ==
    /\ tex.driverdata /\ ~tex.destroyed
    /\ texLast.op # "WIIU_SDL_LockTexture"
    /\ Call_WIIU_SDL_LockTexture

Call_WIIU_SDL_UnlockSurface ==
    /\ texLast.op = "WIIU_SDL_LockTexture"
    /\ Call_WIIU_SDL_UnlockTexture

Call_WIIU_SDL_DestroyTexture ==
    LET Return(r) ==
            /\ tex' = r.tex
            /\ texLast' = [op |-> "WIIU_SDL_DestroyTexture", args |-> <<>>, out |-> r.out,
                           pixels |-> r.pixels, pitch |-> r.pitch]
    IN /\ ~tex.destroyed
       /\ texLast.op # "WIIU_SDL_DestroyTexture"
       /\ Return(WIIU_SDL_DestroyTexture(tex))
       /\ UNCHANGED <<regionVars, coreVars, logVars, presentVars, ticksVars>>

\* The life of a texture: locked, unlocked, destroyed.
NextSurface ==
    \/ Call_WIIU_SDL_LockSurface
    \/ Call_WIIU_SDL_UnlockSurface
    \/ Call_WIIU_SDL_DestroyTexture

NextTexture ==
    \/ Call_WIIU_SDL_LockTexture
    \/ Call_WIIU_SDL_UnlockTexture
    \/ Call_WIIU_SDL_UpdateTexture

(***************************************************************************)
(* The timer (SDL_systimer.c of the Wii U port): SDL_TicksInit,            *)
(* SDL_TicksQuit, SDL_GetTicks64 over the system time, which never         *)
(* decreases.                                                              *)
(***************************************************************************)
\* The system time the model runs up to, in ticks.
MaxClock == 5
\* The most timer calls the history keeps between two SDL_TicksQuit.
MaxTicksCalls == 4
\* OSTimerClockSpeed / 1000: the ticks of one millisecond.
TicksPerMillisecond == 2

OSTicksToMilliseconds(t) == t \div TicksPerMillisecond

InitTicks == [start |-> 0, ticks_started |-> FALSE]

\* The result of a call: the variables, what it returned, the calls to
\* SDL_TicksInit it made, each with the system time it read.
TicksResult(t, ret, out) == [ticks |-> t, ret |-> ret, out |-> out]

\* A faulty SDL_TicksInit: the start is taken again on every call.
SDL_TicksInit_restarts(t, now) ==
    TicksResult([start |-> now, ticks_started |-> TRUE], NULL, <<>>)

\* now is what OSGetSystemTime returns.
SDL_TicksInit(t, now) ==
    IF t.ticks_started THEN TicksResult(t, NULL, <<>>)
    ELSE TicksResult([start |-> now, ticks_started |-> TRUE], NULL, <<>>)

SDL_TicksQuit(t) == TicksResult([t EXCEPT !.ticks_started = FALSE], NULL, <<>>)

\* now is the system time at entry, later the time read after the start is known.
SDL_GetTicks64(t, now, later) ==
    LET Elapsed(r) ==
            TicksResult(r.ticks, OSTicksToMilliseconds(later - r.ticks.start), r.out)
    IN IF ~t.ticks_started
       THEN Elapsed([SDL_TicksInit(t, now) EXCEPT !.out = <<<<"SDL_TicksInit", now>>>>])
       ELSE Elapsed(TicksResult(t, NULL, <<>>))

\* The system time passes.
OSGetSystemTime_Advance ==
    /\ clock < MaxClock
    /\ clock' = clock + 1
    /\ UNCHANGED <<regionVars, coreVars, logVars, presentVars, texVars, ticks, ticksLog>>

\* One more call in the history, with the system time it read and what it returned.
TicksCall(op, time, ret) == [op |-> op, time |-> time, ret |-> ret]

Call_SDL_TicksInit ==
    /\ Len(ticksLog) < MaxTicksCalls
    /\ ticks' = SDL_TicksInit(ticks, clock).ticks
    /\ ticksLog' = Append(ticksLog, TicksCall("SDL_TicksInit", clock, NULL))
    /\ UNCHANGED <<regionVars, coreVars, logVars, presentVars, texVars, clock>>

Call_SDL_TicksQuit ==
    /\ ticks' = SDL_TicksQuit(ticks).ticks
    /\ ticksLog' = <<>>
    /\ UNCHANGED <<regionVars, coreVars, logVars, presentVars, texVars, clock>>

\* The system time may pass between the two reads of one call.
Call_SDL_GetTicks64 ==
    \E later \in clock .. clock + 1 :
        LET Return(r) ==
                /\ ticks' = r.ticks
                /\ ticksLog' = ticksLog
                                \o [i \in 1 .. Len(r.out) |->
                                      TicksCall(r.out[i][1], r.out[i][2], NULL)]
                                \o <<TicksCall("SDL_GetTicks64", later, r.ret)>>
        IN /\ later <= MaxClock
           /\ Len(ticksLog) + (IF ticks.ticks_started THEN 1 ELSE 2) <= MaxTicksCalls
           /\ Return(SDL_GetTicks64(ticks, clock, later))
           /\ clock' = later
           /\ UNCHANGED <<regionVars, coreVars, logVars, presentVars, texVars>>

NextTicks ==
    \/ OSGetSystemTime_Advance
    \/ Call_SDL_TicksInit
    \/ Call_SDL_TicksQuit
    \/ Call_SDL_GetTicks64

(***************************************************************************)
(* detail::to_region on its own: every language with every country.        *)
(***************************************************************************)
\* The language codes parse_locale can produce, as characters: none, the ones
\* to_region knows, the ones it leaves out, and the "C" locale.
LanguageInputs ==
    {<<>>, <<"j", "a">>, <<"e", "n">>, <<"d", "e">>, <<"e", "s">>, <<"f", "r">>,
     <<"i", "t">>, <<"n", "l">>, <<"p", "t">>, <<"r", "u">>, <<"z", "h">>, <<"k", "o">>,
     <<"C">>}
\* The country codes: none, the ones to_region knows, and the ones it leaves out.
CountryInputs ==
    {<<>>, <<"J", "P">>, <<"U", "S">>, <<"C", "A">>, <<"M", "X">>, <<"B", "R">>,
     <<"D", "E">>, <<"E", "S">>, <<"F", "R">>, <<"G", "B">>, <<"I", "T">>, <<"N", "L">>,
     <<"P", "T">>, <<"R", "U">>, <<"C", "N">>, <<"K", "R">>, <<"T", "W">>}

\* The locale string that names a language and a country.
LocaleOf(language, country) ==
    language \o (IF country = <<>> THEN <<>> ELSE <<"_">> \o country)

NoRegionCall == [language |-> "", country |-> "", ret |-> "unset"]

Call_to_region ==
    /\ toRegion.ret = "unset"
    /\ toRegion' = [toRegion EXCEPT !.ret = to_region(toRegion.language, toRegion.country)]
    /\ UNCHANGED <<coreVars, logVars, presentVars, texVars, ticksVars>>

\* to_region on a pair, and WIIU_SWKBD_Initialize with the locale that names it.
NextRegion ==
    \/ Call_to_region
    \/ Call_WIIU_SWKBD_Initialize

\* The state of everything but the software keyboard, the key buffer and the spinlock.
InitSys ==
    /\ log = InitLog
    /\ logLast = NoLogCall
    /\ tvDrcEnabled = FALSE
    /\ gx2 = InitGx2
    /\ tex = [BytesPerPixel |-> 4, w |-> 64, h |-> 20, x |-> 0, y |-> 0, surfacePitch |-> 64,
              padding |-> 0, pixels |-> 4096, hasForeground |-> TRUE, inUse |-> FALSE,
              retries |-> 0]
    /\ texLast = NoTexCall
    /\ ticks = InitTicks
    /\ clock = 1
    /\ ticksLog = <<>>
    /\ toRegion = NoRegionCall

(***************************************************************************)
(* Specifications.                                                         *)
(***************************************************************************)
Init ==
    /\ variant \in Variants
    /\ kb = InitKb(variant)
    /\ nn \in [exists : {FALSE}, state : {"Hidden"}, systemRegion : SystemRegionInputs,
               systemLanguage : {"French"}]
    /\ last = NoCall
    /\ event_buffer = InitEventBuffer
    /\ kbd = InitKbd
    /\ lock = 0
    /\ thr = InitThr
    /\ InitSys

\* The software keyboard, driven by every public call.
Next == NextSwkbd
Spec == Init /\ [][Next]_vars

\* The physical keyboard's buffer between callbacks and pumps.
SpecKbd == Init /\ [][NextKbd]_vars

\* The spinlock among NumThreads threads.
SpecLock == Init /\ [][NextLock]_vars

\* The customisation setters and the appearances that consume them.
NextAppear ==
    \/ NextCustomize
    \/ Call_WIIU_SWKBD_ShowScreenKeyboard
SpecAppear == Init /\ [][NextAppear]_vars

\* The physical keyboard pumped while the software keyboard is shown and hidden;
\* the driver reports MaxKeyEvents key events.
MaxKeyEvents == 2
InitPump ==
    /\ variant \in Variants
    /\ kb = InitKb(variant)
    /\ nn \in [exists : {FALSE}, state : {"Hidden"}, systemRegion : SystemRegionInputs,
               systemLanguage : {"French"}]
    /\ last = NoCall
    /\ event_buffer = InitEventBuffer
    /\ kbd = [InitKbd EXCEPT !.left = Some(MaxKeyEvents)]
    /\ lock = 0
    /\ thr = InitThr
    /\ InitSys
NextPump ==
    \/ NextKbd
    \/ Call_WIIU_SWKBD_ShowScreenKeyboard
    \/ Call_WIIU_SWKBD_Calc
    \/ Call_WIIU_SWKBD_HideScreenKeyboard
SpecPump == InitPump /\ [][NextPump]_vars

\* Frames presented while the software keyboard is shown, used and hidden.
NextPresent ==
    \/ Call_WIIU_SDL_RenderPresent
    \/ Call_WIIU_SWKBD_ShowScreenKeyboard
    \/ Call_WIIU_SWKBD_Calc
    \/ Call_WIIU_SWKBD_HideScreenKeyboard
SpecPresent == Init /\ [][NextPresent]_vars

\* Textures locked, unlocked and updated: every texture, rectangle and source the
\* model draws from.
InitTexture ==
    /\ variant \in Variants
    /\ kb = InitKb(variant)
    /\ nn \in [exists : {FALSE}, state : {"Hidden"}, systemRegion : SystemRegionInputs,
               systemLanguage : {"French"}]
    /\ last = NoCall
    /\ event_buffer = InitEventBuffer
    /\ kbd = InitKbd
    /\ lock = 0
    /\ thr = InitThr
    /\ log = InitLog
    /\ logLast = NoLogCall
    /\ tvDrcEnabled = FALSE
    /\ gx2 = InitGx2
    /\ tex \in UpdateInputs
    /\ texLast = NoTexCall
    /\ ticks = InitTicks
    /\ clock = 1
    /\ ticksLog = <<>>
    /\ toRegion = NoRegionCall
SpecTexture == InitTexture /\ [][NextTexture]_vars

\* The controller data handed to a keyboard that is shown, driven and destroyed.
NextCalc ==
    \/ NextPad
    \/ Call_WIIU_SWKBD_ShowScreenKeyboard
    \/ Call_WIIU_SWKBD_Calc
    \/ Call_WIIU_SWKBD_HideScreenKeyboard
    \/ Call_WIIU_SWKBD_Finalize
SpecPad == Init /\ [][NextCalc]_vars

\* Every language with every country: the pair is handed to to_region, and the
\* locale naming it is the one the keyboard is created for.
InitRegion ==
    \E language \in LanguageInputs, country \in CountryInputs :
        /\ variant \in Variants
        /\ kb = [InitKb(variant) EXCEPT
                    !.swkbdLocale =
                        IF variant = "exc" THEN LocaleOf(language, country)
                        ELSE IF language = <<>> /\ country = <<>> THEN None
                        ELSE Some(LocaleOf(language, country))]
        /\ nn \in [exists : {FALSE}, state : {"Hidden"}, systemRegion : SystemRegionInputs,
                   systemLanguage : {"French"}]
        /\ last = NoCall
        /\ event_buffer = InitEventBuffer
        /\ kbd = InitKbd
        /\ lock = 0
        /\ thr = InitThr
        /\ log = InitLog
        /\ logLast = NoLogCall
        /\ tvDrcEnabled = FALSE
        /\ gx2 = InitGx2
        /\ tex = [BytesPerPixel |-> 4, w |-> 64, h |-> 20, x |-> 0, y |-> 0,
                  surfacePitch |-> 64, padding |-> 0, pixels |-> 4096,
                  hasForeground |-> TRUE, inUse |-> FALSE, retries |-> 0]
        /\ texLast = NoTexCall
        /\ ticks = InitTicks
        /\ clock = 1
        /\ ticksLog = <<>>
        /\ toRegion = [language |-> Join(language), country |-> Join(country), ret |-> "unset"]
SpecRegion == InitRegion /\ [][NextRegion]_vars

\* Every texture of TextureInputs, locked, unlocked and destroyed.
InitSurface ==
    /\ variant \in Variants
    /\ kb = InitKb(variant)
    /\ nn \in [exists : {FALSE}, state : {"Hidden"}, systemRegion : SystemRegionInputs,
               systemLanguage : {"French"}]
    /\ last = NoCall
    /\ event_buffer = InitEventBuffer
    /\ kbd = InitKbd
    /\ lock = 0
    /\ thr = InitThr
    /\ log = InitLog
    /\ logLast = NoLogCall
    /\ tvDrcEnabled = FALSE
    /\ gx2 = InitGx2
    /\ tex \in TextureInputs
    /\ texLast = NoTexCall
    /\ ticks = InitTicks
    /\ clock = 1
    /\ ticksLog = <<>>
    /\ toRegion = NoRegionCall
SpecSurface == InitSurface /\ [][NextSurface]_vars

\* The timer, started, read and stopped while the system time passes.
SpecTicks == Init /\ [][NextTicks]_vars

\* SDL_log.c, driven by every call an application can make.
SpecLog == Init /\ [][NextLog]_vars

(***************************************************************************)
(* Properties.                                                             *)
(***************************************************************************)
\* The positions in a call log of the calls of fn.
CallsOf(out, fn) == {i \in 1 .. Len(out) : out[i][1] = fn}
\* The positions in a call log of the SDL_SendSysWMEvent calls posting ev.
PostsOf(out, ev) == {i \in 1 .. Len(out) : out[i][1] = "SDL_SendSysWMEvent" /\ out[i][2] = ev}
\* The nn::swkbd functions a call log names.
LoggedNN ==
    {"GetWorkMemorySize", "Create", "Destroy", "Calc", "AppearInputForm",
     "DisappearInputForm", "DrawTV", "DrawDRC", "IsDecideOkButton", "IsDecideCancelButton"}
\* A call that made no nn::swkbd call while no keyboard was created.
NoNNCall(l) == l.bad = {} /\ \A i \in 1 .. Len(l.out) : l.out[i][1] \notin LoggedNN

\* C1: in both variants, after every public call, no nn::swkbd function other
\* than GetWorkMemorySize and Create was called while created was false.
C1_NoCallWithoutKeyboard == last.bad = {}

\* The software keyboard is shown on a window: created, owned by that window, and
\* its input form is not Hidden.
SwkbdShownOnWindow ==
    kb.created /\ kb.window \in Windows /\ nn.exists /\ nn.state # "Hidden"

\* C2: a pump that runs while the software keyboard is shown on a window makes
\* no SDL_SendKeyboardKey and no SDL_SendKeyboardText call.
C2_NoKeyEventsWhileShown == SwkbdShownOnWindow => kbd.sent = <<>>

\* C3: event_buffer.current stays within 0 .. EVENT_BUFFER_SIZE and only the
\* slots events[0 .. EVENT_BUFFER_SIZE - 1] exist; the store of a callback that
\* finds the buffer full changes neither the count nor any stored event.
C3_Within ==
    /\ event_buffer.current \in 0 .. EVENT_BUFFER_SIZE
    /\ DOMAIN event_buffer.events = 0 .. EVENT_BUFFER_SIZE - 1
C3_FullStore ==
    (kbd.cb = "locked" /\ kbd'.cb = "unlock" /\ event_buffer.current = EVENT_BUFFER_SIZE)
        => event_buffer' = event_buffer
C3_BufferBounded == [](C3_Within) /\ [][C3_FullStore]_vars

\* A callback has just found the buffer full: its event is not in the last slot.
C3_Witness ==
    /\ kbd.cb = "unlock"
    /\ event_buffer.current = EVENT_BUFFER_SIZE
    /\ event_buffer.events[EVENT_BUFFER_SIZE - 1] # kbd.e

\* The SDL_SendKeyboardKey and SDL_SendKeyboardText calls of the running pump.
KeysSent == CallsOf(kbd.sent, "SDL_SendKeyboardKey")
TextsSent == CallsOf(kbd.sent, "SDL_SendKeyboardText")
\* The pump has delivered exactly events[0 .. n - 1]: one key call per event, in
\* the order stored, and a text call only right after the key call of the same,
\* pressed, event.
Delivered(n) ==
    /\ Cardinality(KeysSent) = n
    /\ \A j \in KeysSent :
         LET i == kbd.sent[j][2]
         IN /\ i = Cardinality({k \in KeysSent : k < j})
            /\ kbd.sent[j][3] = (IF event_buffer.events[i].isPressedDown
                                 THEN "SDL_PRESSED" ELSE "SDL_RELEASED")
            /\ kbd.sent[j][4] = event_buffer.events[i].hidCode
    /\ \A j \in TextsSent :
         /\ j > 1
         /\ kbd.sent[j - 1][1] = "SDL_SendKeyboardKey"
         /\ kbd.sent[j - 1][2] = kbd.sent[j][2]
         /\ kbd.sent[j - 1][3] = "SDL_PRESSED"

\* C4: a delivering pump emits the buffered events in stored order, the key call
\* of each before its text, a text only for a key-down; when its loop is over it
\* has emitted every buffered event once, and it empties the buffer before it
\* releases the mutex, so that no later pump emits one of them again.
C4_DeliveredInOrder ==
    /\ (kbd.pump \in {"loop", "reset"} /\ ~kbd.shown) => Delivered(kbd.i)
    /\ (kbd.pump = "reset" /\ ~kbd.shown) => kbd.i = event_buffer.current
    /\ kbd.pump = "unlock" => event_buffer.current = 0

\* A pump has delivered several events, a release and a text among them.
C4_Witness ==
    /\ kbd.pump = "reset"
    /\ ~kbd.shown
    /\ event_buffer.current >= 3
    /\ TextsSent # {}
    /\ \E j \in KeysSent : kbd.sent[j][3] = "SDL_RELEASED"

\* The call was a WIIU_SWKBD_ShowScreenKeyboard that called AppearInputForm.
ShowAppeared(l) ==
    l.op = "WIIU_SWKBD_ShowScreenKeyboard" /\ CallsOf(l.out, "AppearInputForm") # {}
\* The argument handed to AppearInputForm carries no customisation.
PlainAppearArg(arg) ==
    /\ arg.keyboardMode = "Full"
    /\ arg.okString = None
    /\ arg.showWordSuggestions = TRUE
    /\ arg.initialText = None
    /\ arg.hintText = None
    /\ arg.passwordMode = "Clear"
    /\ arg.higlightInitialText = FALSE
    /\ arg.showCopyPasteButtons = FALSE
    /\ arg.drawSysWiiPointer = TRUE
C5_Reset ==
    ShowAppeared(last) =>
        /\ kb.custom.keyboardMode = "Full"
        /\ kb.custom.okText = <<>>
        /\ kb.custom.initialText = <<>>
        /\ kb.custom.hintText = <<>>
        /\ kb.custom.showWordSuggestions = TRUE
        /\ kb.custom.passwordMode = "Clear"
        /\ kb.custom.highlightInitialText = FALSE
        /\ kb.custom.showCopyPasteButtons = FALSE
        /\ kb.custom.drawWiiPointer = TRUE
C5_NextAppearancePlain ==
    (ShowAppeared(last) /\ ShowAppeared(last') /\ kb.appear_customArg = NULL)
        => \A i \in CallsOf(last'.out, "AppearInputForm") : PlainAppearArg(last'.out[i][2])

LocaleArgEqualsStored(k, a) ==
    IF variant = "exc"
    THEN IF a = None THEN k.swkbdLocale = <<>> ELSE a[1] = k.swkbdLocale
    ELSE IF a = None THEN k.swkbdLocale = None
         ELSE k.swkbdLocale # None /\ a[1] = k.swkbdLocale[1]

\* The step is a call that forces the keyboard to be created again.
ForcesRecreate ==
    \/ last'.op = "SDL_WiiUSetSWKBDCreateArg"
    \/ last'.op = "SDL_WiiUSetSWKBDLocale" /\ ~LocaleArgEqualsStored(kb, last'.args[1])
\* On return created is false, and Destroy was called iff the keyboard was created.
RecreateForced ==
    ForcesRecreate => (~kb'.created /\ (CallsOf(last'.out, "Destroy") # {} <=> kb.created))

\* The region the next Create is due: the custom argument's, else the one derived
\* from the stored locale, else the system's.
RegionDue ==
    IF kb.create_customArg # NULL THEN CreateArgAt(kb.create_customArg).regionType
    ELSE LET loc == IF variant = "exc" THEN parse_locale_exc(kb.swkbdLocale)
                    ELSE parse_locale_flag(kb.swkbdLocale)
             reg == to_region(loc[1], loc[2])
         IN IF reg # NULL THEN reg ELSE nn.systemRegion
\* The call log holds exactly one Create, with the argument that is due.
CreatesOnce(out) ==
    /\ Cardinality(CallsOf(out, "Create")) = 1
    /\ \A i \in CallsOf(out, "Create") :
         LET arg == out[i][2]
             custom == CreateArgAt(kb.create_customArg)
         IN /\ arg.regionType = RegionDue
            /\ (kb.create_customArg # NULL /\ custom.fsClient # NULL)
                   => arg.fsClient = custom.fsClient
            /\ (kb.create_customArg # NULL /\ custom.workMemory # NULL)
                   => arg.workMemory = custom.workMemory
\* The call log reports that the FS client or the work memory could not be had.
AllocationFailed(out) ==
    \E i \in CallsOf(out, "SDL_LogError") :
        out[i][2] \in {"WIIU_SWKBD_Initialize() failed",
                       "Could not create FSClientfor nn::swkbd",
                       "Could not allocate memory for nn::swkbd"}

\* C6 as stated: SDL_WiiUSetSWKBDCreateArg, and SDL_WiiUSetSWKBDLocale with a
\* locale that differs, return with created false (Destroy called iff it was
\* created), and the next WIIU_SWKBD_ShowScreenKeyboard calls Create exactly
\* once with the argument that is due.  (Here a SDL_WiiUSetSWKBDLocale is known
\* to have changed the locale by the Destroy it made.)
C6_ShowAlwaysCreatesStep ==
    /\ RecreateForced
    /\ ( /\ \/ last.op = "SDL_WiiUSetSWKBDCreateArg"
            \/ last.op = "SDL_WiiUSetSWKBDLocale" /\ CallsOf(last.out, "Destroy") # {}
         /\ last'.op = "WIIU_SWKBD_ShowScreenKeyboard" )
       => CreatesOnce(last'.out)
C6_RecreatedStep ==
    /\ RecreateForced
    /\ ( /\ last.op \in {"SDL_WiiUSetSWKBDCreateArg", "SDL_WiiUSetSWKBDLocale"}
         /\ ~kb.created
         /\ last'.op = "WIIU_SWKBD_ShowScreenKeyboard"
         /\ variant = "flag" => kb.enabled )
       => \/ CreatesOnce(last'.out)
          \/ CallsOf(last'.out, "Create") = {} /\ AllocationFailed(last'.out)
C7_SameLocaleStep ==
    (last'.op = "SDL_WiiUSetSWKBDLocale" /\ LocaleArgEqualsStored(kb, last'.args[1]))
        => /\ kb'.created = kb.created
           /\ kb'.window = kb.window
           /\ kb'.region = kb.region
           /\ kb'.swkbdLocale = kb.swkbdLocale
           /\ CallsOf(last'.out, "Destroy") = {}
C7_SameLocaleNoEffect == [][C7_SameLocaleStep]_vars

\* The locale of a created, shown keyboard was set again to the text it had.
C7_Witness ==
    /\ last.op = "SDL_WiiUSetSWKBDLocale"
    /\ last.args[1] # None
    /\ LocaleArgEqualsStored(kb, last.args[1])
    /\ kb.created
    /\ kb.window # NULL

\* C8 (enable-flag variant): while enabled is false the keyboard is not created
\* and holds no FS client, work memory or region; a WIIU_SWKBD_Initialize,
\* ShowScreenKeyboard, Calc or Draw made while disabled calls nothing of
\* nn::swkbd, HasScreenKeyboardSupport returns SDL_FALSE, and
\* SDL_WiiUSetSWKBDEnabled with the value in effect changes nothing.
C8_Freed ==
    (variant = "flag" /\ ~kb.enabled)
        => ~kb.created /\ ~kb.fsClient /\ ~kb.workMemory /\ kb.region = NULL
C8_DisabledStep ==
    variant = "flag" =>
        /\ ( /\ ~kb.enabled
             /\ last'.op \in {"WIIU_SWKBD_Initialize", "WIIU_SWKBD_ShowScreenKeyboard",
                              "WIIU_SWKBD_Calc", "WIIU_SWKBD_Draw"} )
           => NoNNCall(last') /\ nn' = nn
        /\ (~kb.enabled /\ last'.op = "WIIU_SWKBD_HasScreenKeyboardSupport")
           => last'.ret = FALSE
        /\ (last'.op = "SDL_WiiUSetSWKBDEnabled" /\ last'.args[1] = kb.enabled)
           => kb' = kb /\ nn' = nn /\ last'.out = <<>> /\ last'.bad = {}
C8_DisabledKeyboard == [](C8_Freed) /\ [][C8_DisabledStep]_vars

\* The disabled keyboard was asked to show itself.
C8_Witness ==
    /\ variant = "flag"
    /\ ~kb.enabled
    /\ kb.fsLib
    /\ last.op = "WIIU_SWKBD_ShowScreenKeyboard"

\* The Calc call saw IsDecideOkButton answer true.
Confirmed(out) == \E i \in CallsOf(out, "IsDecideOkButton") : out[i][2] = TRUE
OkStarts(out) == PostsOf(out, "SDL_WIIU_SYSWM_SWKBD_OK_START_EVENT")
OkFinishes(out) == PostsOf(out, "SDL_WIIU_SYSWM_SWKBD_OK_FINISH_EVENT")

\* C9 (enable-flag variant): a WIIU_SWKBD_Calc that sees the input confirmed
\* posts exactly one OK_START and one OK_FINISH, the START after the
\* confirmation and before the text, the FINISH after the text, whether or not
\* a text was sent; a Calc that sees none posts neither event and no text.
C9_StartTextFinish ==
    (variant = "flag" /\ last.op = "WIIU_SWKBD_Calc") =>
        LET out == last.out
            n == IF Confirmed(out) THEN 1 ELSE 0
            texts == CallsOf(out, "SDL_SendKeyboardText")
        IN /\ Cardinality(OkStarts(out)) = n
           /\ Cardinality(OkFinishes(out)) = n
           /\ Cardinality(texts) <= n
           /\ \A s \in OkStarts(out) :
                /\ \A c \in CallsOf(out, "IsDecideOkButton") : c < s
                /\ \A f \in OkFinishes(out) : s < f
                /\ \A t \in texts : s < t
           /\ \A f \in OkFinishes(out) : \A t \in texts : t < f

\* A confirmation whose text could not be converted: both events, no text.
C9_Witness ==
    /\ variant = "flag"
    /\ last.op = "WIIU_SWKBD_Calc"
    /\ Confirmed(last.out)
    /\ CallsOf(last.out, "SDL_SendKeyboardText") = {}
    /\ CallsOf(last.out, "SDL_LogError") # {}
    /\ OkStarts(last.out) # {}
    /\ OkFinishes(last.out) # {}

\* The threads whose acquisition succeeded and is not yet unlocked.
Holders == {t \in Threads : thr[t].holds}
C10_Exclusive ==
    /\ lock \in {0, 1}
    /\ Cardinality(Holders) <= 1
    /\ lock = 1 <=> Holders # {}
\* A step in which thread t's SDL_AtomicTryLock returns.
TryLockReturns(t) == thr'[t] # thr[t] /\ thr'[t].ret # None
C10_TryLockStep ==
    \A t \in Threads :
        TryLockReturns(t) =>
            /\ thr'[t].ret = Some(lock = 0)
            /\ thr'[t].ret = Some(FALSE) =>
                 /\ lock' = lock
                 /\ lock = 1
                 /\ {u \in Threads : thr'[u].holds} = Holders

\* C10: at most one thread holds the spinlock at a time, the lock word is always
\* 0 or 1, and a SDL_AtomicTryLock that fails returns SDL_FALSE and leaves the
\* lock with the thread that holds it.
C10_MutualExclusion == [](C10_Exclusive) /\ [][C10_TryLockStep]_vars

\* One thread holds the lock, another's SDL_AtomicTryLock has failed, a third spins.
C10_Witness ==
    \E t, u, v \in Threads :
        /\ thr[t].holds
        /\ ~thr[u].holds /\ thr[u].ret = Some(FALSE)
        /\ thr[v].pc = "spin" /\ thr[v].iterations = SpinPauses

(***************************************************************************)
(* SDL_log.c                                                               *)
(***************************************************************************)
\* The calls of the output function among the calls out.
LogOutputs(out) == {i \in 1 .. Len(out) : out[i][1] = "SDL_log_function"}
\* Whether an allocation failed among the calls out.
MallocFailed(out) == \E i \in 1 .. Len(out) : out[i] = <<"SDL_malloc", FALSE>>
\* The conditions under which SDL_LogMessageV passes a message on, in variables l.
LogWanted(l, category, priority) ==
    /\ l.log_function # NULL
    /\ priority \in 0 .. SDL_NUM_LOG_PRIORITIES - 1
    /\ priority >= SDL_LogGetPriority(l, category)
C11_Step ==
    logLast'.op = "SDL_LogMessageV" =>
        LET category == logLast'.args[1]
            priority == logLast'.args[2]
            len == logLast'.args[3]
            calls == LogOutputs(logLast'.out)
        IN /\ Cardinality(calls) <= 1
           /\ calls # {} => LogWanted(log, category, priority)
           /\ LogWanted(log, category, priority) /\ len >= 0 /\ ~MallocFailed(logLast'.out)
                => /\ Cardinality(calls) = 1
                   /\ \A i \in calls : /\ logLast'.out[i][2] = category
                                       /\ logLast'.out[i][3] = priority

\* C11: SDL_LogMessageV calls the output function at most once, and only when an
\* output function is set, the priority is within 0 .. SDL_NUM_LOG_PRIORITIES - 1
\* and not lower than the category's; when these hold and formatting and
\* allocation succeed it calls it exactly once with the same category and priority.
C11_LogAtMostOnce == [][C11_Step]_vars

\* A long message, allocated, passed on for a category that has its own entry.
C11_Witness ==
    /\ logLast.op = "SDL_LogMessageV"
    /\ logLast.args[3] >= SDL_MAX_LOG_MESSAGE_STACK
    /\ LogOutputs(logLast.out) # {}
    /\ FindLogLevel(log.loglevels, logLast.args[1]) # 0

\* C12: after SDL_LogSetAllPriority(p), until the next SDL_LogSetPriority or
\* SDL_LogResetPriorities, SDL_LogGetPriority(c) returns p for every category c,
\* SDL_LOG_CATEGORY_TEST included.
C12_AllPriority ==
    logLast.all # None =>
        \A c \in Categories : SDL_LogGetPriority(log, c) = logLast.all[1]

\* C13: initially and after SDL_LogResetPriorities the list is empty and
\* SDL_LogGetPriority returns INFO for APPLICATION, WARN for ASSERT, VERBOSE for
\* TEST and CRITICAL for every other category.
C13_Defaults ==
    logLast.op \in {"none", "SDL_LogResetPriorities"} =>
        /\ log.loglevels = <<>>
        /\ SDL_LogGetPriority(log, "SDL_LOG_CATEGORY_APPLICATION") = SDL_LOG_PRIORITY_INFO
        /\ SDL_LogGetPriority(log, "SDL_LOG_CATEGORY_ASSERT") = SDL_LOG_PRIORITY_WARN
        /\ SDL_LogGetPriority(log, "SDL_LOG_CATEGORY_TEST") = SDL_LOG_PRIORITY_VERBOSE
        /\ \A c \in Categories \ {"SDL_LOG_CATEGORY_APPLICATION", "SDL_LOG_CATEGORY_ASSERT",
                                  "SDL_LOG_CATEGORY_TEST"} :
              SDL_LogGetPriority(log, c) = SDL_LOG_PRIORITY_CRITICAL

\* A reset that freed a full list.
C13_Witness ==
    /\ logLast.op = "SDL_LogResetPriorities"
    /\ Len(logLast.out) = MaxLogLevels

C14_OnePerCategory ==
    \A i, j \in 1 .. Len(log.loglevels) :
        i # j => log.loglevels[i].category # log.loglevels[j].category
C14_Step ==
    logLast'.op = "SDL_LogSetPriority" =>
        /\ ~MallocFailed(logLast'.out) =>
              SDL_LogGetPriority(log', logLast'.args[1]) = logLast'.args[2]
        /\ \A d \in Categories \ {logLast'.args[1]} :
              SDL_LogGetPriority(log', d) = SDL_LogGetPriority(log, d)

\* C14: the list holds at most one entry per category; SDL_LogSetPriority(c, p),
\* when the allocation succeeds, makes SDL_LogGetPriority(c) return p and leaves
\* SDL_LogGetPriority(d) as it was for every other category d.
C14_LastWriteWins == [](C14_OnePerCategory) /\ [][C14_Step]_vars

\* The entry of a category that is not at the head of the list was overwritten.
C14_Witness ==
    /\ logLast.op = "SDL_LogSetPriority"
    /\ logLast.out = <<>>
    /\ FindLogLevel(log.loglevels, logLast.args[1]) > 1

(***************************************************************************)
(* SDL_rpresent_wiiu.c: WIIU_SDL_RenderPresent                             *)
(***************************************************************************)
\* The steps of a present the order is stated for, each under one name.
PresentStep(c) ==
    IF c[1] \in {"DrawTV", "DrawDRC"} THEN "draw"
    ELSE IF c[1] = "GX2CopyColorBufferToScanBuffer" THEN c[2]
    ELSE IF c[1] = "GX2SetContextState" THEN (IF c[2] = NULL THEN "none" ELSE "restore")
    ELSE IF c[1] \in {"GX2SwapScanBuffers", "GX2Flush", "WIIU_FrameDone"} THEN c[1]
    ELSE "none"
IsPresentStep(c) == PresentStep(c) # "none"
PresentSteps(out) ==
    LET steps == SelectSeq(out, IsPresentStep)
    IN [i \in 1 .. Len(steps) |-> PresentStep(steps[i])]
\* Whether the software keyboard is shown for window w, from the variables.
ShownFor(w) == kb.created /\ kb.window = w /\ nn.exists /\ nn.state # "Hidden"
C15_Step ==
    last'.op = "WIIU_SDL_RenderPresent" =>
        PresentSteps(last'.out) =
            (IF ShownFor(last'.args[1]) THEN <<"draw">> ELSE <<>>)
            \o (IF "SDL_WINDOW_WIIU_GAMEPAD_ONLY" \notin WindowFlags(last'.args[1])
                THEN <<"GX2_SCAN_TARGET_TV">> ELSE <<>>)
            \o (IF "SDL_WINDOW_WIIU_TV_ONLY" \notin WindowFlags(last'.args[1])
                THEN <<"GX2_SCAN_TARGET_DRC">> ELSE <<>>)
            \o <<"GX2SwapScanBuffers", "GX2Flush", "restore", "WIIU_FrameDone">>

\* C15: every WIIU_SDL_RenderPresent draws the software keyboard (only if it is
\* shown for this window), copies the colour buffer to the TV scan buffer (unless
\* the window is gamepad-only) and to the DRC scan buffer (unless it is TV-only),
\* swaps, flushes, restores the renderer's context state and calls
\* WIIU_FrameDone, in this order and each once.
C15_PresentOrder == [][C15_Step]_vars

\* The keyboard drawn, through the gamma fix, for the gamepad-only window.
C15_Witness ==
    /\ last.op = "WIIU_SDL_RenderPresent"
    /\ last.args = <<"winPad", "GX2_SURFACE_FORMAT_UNORM_R8_G8_B8_A8">>
    /\ Count(last.out, "DrawDRC") = 1
    /\ Count(last.out, "GX2SetColorBuffer") = 2

\* C16: GX2SetTVEnable(TRUE) and GX2SetDRCEnable(TRUE) are each called exactly
\* once over any number of presents, in the first present and after its
\* GX2SwapScanBuffers, and never before a frame was swapped.
C16_EnabledOnce ==
    /\ gx2.tvEnables = (IF gx2.swaps = 0 THEN 0 ELSE 1)
    /\ gx2.drcEnables = (IF gx2.swaps = 0 THEN 0 ELSE 1)
    /\ tvDrcEnabled <=> gx2.swaps > 0
    /\ last.op = "WIIU_SDL_RenderPresent" =>
          \A i \in 1 .. Len(last.out) :
              last.out[i][1] \in {"GX2SetTVEnable", "GX2SetDRCEnable"} =>
                  /\ gx2.swaps = 1
                  /\ \E j \in 1 .. i - 1 : last.out[j][1] = "GX2SwapScanBuffers"

\* A later present, which enables nothing.
C16_Witness ==
    /\ last.op = "WIIU_SDL_RenderPresent"
    /\ gx2.swaps >= 2
    /\ gx2.tvEnables = 1
    /\ Count(last.out, "GX2SetTVEnable") = 0

(***************************************************************************)
(* SDL_rtexture_wiiu.c: WIIU_SDL_UpdateTexture                             *)
(***************************************************************************)
\* The update asked for, from the texture, the rectangle and the pixels.
RowBytes == tex.w * tex.BytesPerPixel
TotalBytes == RowBytes * tex.h
Destination == PixelBuffer + tex.y * (tex.surfacePitch * tex.BytesPerPixel)
                 + tex.x * tex.BytesPerPixel
Contiguous ==
    /\ RowBytes = RowBytes + tex.padding
    /\ RowBytes = tex.surfacePitch * tex.BytesPerPixel
DmaDue ==
    /\ Contiguous
    /\ TotalBytes > 5120
    /\ tex.pixels % 8 = 0
    /\ Destination % 8 = 0
\* The block moves among the calls out.
Moves(out) == {i \in 1 .. Len(out) : out[i][1] = "OSBlockMove"}
UpdatedInForeground == texLast.op = "WIIU_SDL_UpdateTexture" /\ tex.hasForeground
\* What does not depend on the DMA transfer: one block move of the whole size for a
\* contiguous update that is too small or misaligned, rect->h moves of one row
\* each otherwise, none beside a DMA transfer.
MovesAsStated ==
    /\ DmaDue => Moves(texLast.out) = {}
    /\ Contiguous /\ ~DmaDue =>
          /\ Cardinality(Moves(texLast.out)) = 1
          /\ \A i \in Moves(texLast.out) : texLast.out[i][4] = TotalBytes
    /\ ~Contiguous =>
          /\ Cardinality(Moves(texLast.out)) = tex.h
          /\ \A i \in Moves(texLast.out) : texLast.out[i][4] = RowBytes

FirstInit ==
    ticksLog[CHOOSE i \in 1 .. Len(ticksLog) :
                /\ ticksLog[i].op = "SDL_TicksInit"
                /\ \A j \in 1 .. i - 1 : ticksLog[j].op # "SDL_TicksInit"].time
\* The SDL_GetTicks64 calls since the last SDL_TicksQuit.
TicksRead == {i \in 1 .. Len(ticksLog) : ticksLog[i].op = "SDL_GetTicks64"}

\* C18: SDL_GetTicks64 returns the milliseconds between the first SDL_TicksInit
\* (explicit, or made by SDL_GetTicks64) that followed the most recent
\* SDL_TicksQuit and the time it reads; later SDL_TicksInit calls do not move the
\* start, and successive results do not decrease until SDL_TicksQuit.
C18_TicksSinceFirstInit ==
    /\ \A i \in TicksRead :
          /\ \E j \in 1 .. i - 1 : ticksLog[j].op = "SDL_TicksInit"
          /\ ticksLog[i].ret = (ticksLog[i].time - FirstInit) \div TicksPerMillisecond
    /\ \A i, j \in TicksRead : i < j => ticksLog[i].ret <= ticksLog[j].ret

\* After a quit: a read that started the timer itself, a second SDL_TicksInit
\* later, and a read after it that still counts from the first.
C18_Witness ==
    /\ Len(ticksLog) = 4
    /\ ticksLog[1].op = "SDL_TicksInit" /\ ticksLog[1].time > 1
    /\ ticksLog[2].op = "SDL_GetTicks64"
    /\ ticksLog[3].op = "SDL_TicksInit" /\ ticksLog[3].time > ticksLog[1].time
    /\ ticksLog[4].op = "SDL_GetTicks64" /\ ticksLog[4].ret > 0

(***************************************************************************)
(* The window that owns the software keyboard                              *)
(***************************************************************************)
\* The windows WIIU_SWKBD_IsScreenKeyboardShown answers SDL_TRUE for now.
ShownWindows ==
    {w \in Windows \cup {NULL} :
        \E e \in EnvState :
            WIIU_SWKBD_IsScreenKeyboardShown(Machine(kb, nn), w, e).ret = TRUE}
\* The call that was just made destroyed the keyboard (WIIU_SWKBD_Finalize).
Finalized == CallsOf(last'.out, "Destroy") # {}
\* The call that was just made asked the input form to disappear
\* (WIIU_SWKBD_HideScreenKeyboard).
Hid == CallsOf(last'.out, "DisappearInputForm") # {}
\* The call that was just made was a Calc that found the input form Hidden.
CalcSawHidden ==
    /\ last'.op = "WIIU_SWKBD_Calc"
    /\ CallsOf(last'.out, "Calc") # {}
    /\ nn'.state = "Hidden"

C19_Step ==
    \* SDL_TRUE only with a keyboard, for the owner, with a form that is not Hidden
    /\ (last'.op = "WIIU_SWKBD_IsScreenKeyboardShown" /\ last'.ret = TRUE) =>
          /\ kb.created
          /\ last'.args[1] = kb.window
          /\ nn.exists /\ nn.state # "Hidden"
    \* showing for a second window leaves the owner alone
    /\ (last'.op = "WIIU_SWKBD_ShowScreenKeyboard" /\ kb.window # NULL) =>
          kb'.window = kb.window
    \* who releases the owner
    /\ (kb.window # NULL /\ kb'.window = NULL) =>
          \/ Finalized
          \/ CalcSawHidden
          \/ variant = "exc" /\ Hid
    /\ (kb.window # NULL /\ Finalized) => kb'.window = NULL
    /\ (kb.window # NULL /\ CalcSawHidden) => kb'.window = NULL
    /\ (kb.window # NULL /\ Hid /\ ~Finalized /\ ~CalcSawHidden) =>
          kb'.window = IF variant = "exc" THEN NULL ELSE kb.window

\* C19: WIIU_SWKBD_IsScreenKeyboardShown(w) is SDL_TRUE only when the keyboard is
\* created, w is the owning window and the input form is not Hidden, so never for
\* two windows at once; ShowScreenKeyboard for another window does not change the
\* owner; the owner is released by Finalize, by a Calc that finds the form Hidden
\* and, in the exception-based variant only, by HideScreenKeyboard.
C19_OneOwner ==
    /\ [](Cardinality(ShownWindows) <= 1)
    /\ [][C19_Step]_vars

\* A second window asked for the keyboard while the first owns it and shows it.
C19_Witness ==
    /\ last.op = "WIIU_SWKBD_ShowScreenKeyboard"
    /\ last.args = <<"winDRC">>
    /\ kb.created /\ kb.window = "winTV"
    /\ ShownWindows = {"winTV"}

(***************************************************************************)
(* Controller data for the software keyboard                               *)
(***************************************************************************)
\* The call that was just made was SDL_WiiUSetSWKBDVPAD or SDL_WiiUSetSWKBDKPAD.
PadCall == last'.op \in {"SDL_WiiUSetSWKBDVPAD", "SDL_WiiUSetSWKBDKPAD"}
Accepted == PadCall /\ last'.ret = TRUE
Refused == PadCall /\ last'.ret = FALSE
\* The positions of nn::swkbd::Calc in the log of the call that was just made.
CalcCalls == CallsOf(last'.out, "Calc")

\* SDL_TRUE only with a keyboard whose input form is Visible and, for KPAD, a
\* channel within 0..3.
AcceptedWhenVisible ==
    Accepted =>
        /\ kb.created /\ nn.exists /\ nn.state = "Visible"
        /\ last'.op = "SDL_WiiUSetSWKBDKPAD" => last'.args[1] \in 0 .. 3
\* SDL_FALSE leaves the controller info and both buffers as they were.
RefusedUntouched ==
    Refused =>
        /\ kb'.controllerInfo = kb.controllerInfo
        /\ kb'.vpad = kb.vpad
        /\ kb'.kpad = kb.kpad
\* A Calc hands the pending controller info to one nn::swkbd::Calc and clears it.
CalcConsumes ==
    CalcCalls # {} =>
        /\ Cardinality(CalcCalls) = 1
        /\ \A i \in CalcCalls : last'.out[i][2] = kb.controllerInfo
        /\ kb'.controllerInfo = NoControllerInfo
        /\ ControllerData(kb') = [vpad |-> None, kpad |-> <<>>]
\* Accepted data is what the next Calc will read for its controller; the other
\* controllers' data stays.
AcceptedPending ==
    Accepted =>
        IF last'.op = "SDL_WiiUSetSWKBDVPAD"
        THEN /\ ControllerData(kb').vpad = Some(last'.args[1])
             /\ ControllerData(kb').kpad = ControllerData(kb).kpad
        ELSE /\ ControllerData(kb').vpad = ControllerData(kb).vpad
             /\ DOMAIN ControllerData(kb').kpad = DOMAIN ControllerData(kb).kpad \cup {last'.args[1]}
             /\ \A c \in DOMAIN ControllerData(kb').kpad :
                   ControllerData(kb').kpad[c] =
                       IF c = last'.args[1] THEN last'.args[2] ELSE ControllerData(kb).kpad[c]
\* Accepted data never takes the place of data that no Calc has read yet.
AcceptedNeverReplaces ==
    Accepted =>
        IF last'.op = "SDL_WiiUSetSWKBDVPAD"
        THEN ControllerData(kb).vpad = None
        ELSE last'.args[1] \notin DOMAIN ControllerData(kb).kpad

\* C20 as stated: SDL_TRUE only with a created keyboard in state Visible (and a
\* KPAD channel within 0..3), SDL_FALSE changes nothing, and every accepted
\* controller data is passed to exactly one nn::swkbd::Calc.
C20_PassedToOneCalc ==
    [][AcceptedWhenVisible /\ RefusedUntouched /\ CalcConsumes /\ AcceptedNeverReplaces]_vars

\* C20: SDL_TRUE only with a created keyboard in state Visible (and a KPAD
\* channel within 0..3), SDL_FALSE changes neither the controller info nor a
\* buffer, and accepted controller data is passed to at most one
\* nn::swkbd::Calc: the next Calc receives the data accepted last for each
\* controller and clears the controller info.
C20_PassedToAtMostOneCalc ==
    [][AcceptedWhenVisible /\ RefusedUntouched /\ CalcConsumes /\ AcceptedPending]_vars

\* A Calc has just passed accepted gamepad and remote data on, and cleared it.
C20_Witness ==
    /\ last.op = "WIIU_SWKBD_Calc"
    /\ \E i \in CallsOf(last.out, "Calc") :
          last.out[i][2].vpad /\ last.out[i][2].kpad = {0, 3}
    /\ kb.controllerInfo = NoControllerInfo
    /\ kb.vpad = "sampleB" /\ kb.kpad[3] = "sampleA"

(***************************************************************************)
(* Failures of WIIU_SWKBD_Initialize                                       *)
(***************************************************************************)
\* The call that was just made was a WIIU_SWKBD_Initialize that had to create.
InitializeRan ==
    /\ last'.op = "WIIU_SWKBD_Initialize"
    /\ ~kb.created
    /\ variant = "flag" => kb.enabled
InitializeFailed == InitializeRan /\ ~kb'.created
InitializeCreated == InitializeRan /\ kb'.created
\* What the create argument the call used supplied itself.
SuppliedFsClient ==
    kb.create_customArg # NULL /\ CreateArgAt(kb.create_customArg).fsClient # NULL
SuppliedWorkMemory ==
    kb.create_customArg # NULL /\ CreateArgAt(kb.create_customArg).workMemory # NULL
\* The call gave up before it took the work memory: the FS client could not be made.
FailedAtFsClient ==
    /\ InitializeFailed
    /\ CallsOf(last'.out, "GetWorkMemorySize") = {}
    /\ CallsOf(last'.out, "Create") = {}

\* A failure is logged once, and leaves neither a keyboard nor a region.
FailureLogged ==
    InitializeFailed =>
        /\ Cardinality(CallsOf(last'.out, "SDL_LogError")) = 1
        /\ last'.out[Len(last'.out)][1] = "SDL_LogError"
        /\ kb'.region = NULL
        /\ ~nn'.exists
\* After a successful Create each internal resource is kept exactly when the
\* create argument did not bring its own.
CreatedRetains ==
    InitializeCreated =>
        /\ kb'.fsClient = ~SuppliedFsClient
        /\ kb'.workMemory = ~SuppliedWorkMemory
        /\ kb'.region # NULL
        /\ CallsOf(last'.out, "SDL_LogError") = {}

\* C21 as stated: a failing WIIU_SWKBD_Initialize logs and returns with created
\* false and no region, and holds neither the internal FS client nor the internal
\* work memory afterwards; a successful one retains each exactly when the create
\* argument did not supply its own.
C21_FailureReleasesAll ==
    [][/\ FailureLogged
       /\ CreatedRetains
       /\ InitializeFailed => ~kb'.fsClient /\ ~kb'.workMemory]_vars

\* C21: a failing WIIU_SWKBD_Initialize logs and returns with created false and no
\* region, and holds no internal FS client afterwards; it holds no internal work
\* memory either, unless it failed to make the FS client, which leaves a work
\* memory retained earlier where it is; a successful one retains each exactly
\* when the create argument did not supply its own.
C21_FailureReleases ==
    [][/\ FailureLogged
       /\ CreatedRetains
       /\ InitializeFailed =>
             /\ ~kb'.fsClient
             /\ kb'.workMemory = (FailedAtFsClient /\ kb.workMemory)]_vars

\* nn::swkbd::Create has just failed in a WIIU_SWKBD_Initialize that had read the
\* system region: it logged, and no keyboard and no internal resource is left.
C21_Witness ==
    /\ last.op = "WIIU_SWKBD_Initialize"
    /\ CallsOf(last.out, "Create") # {}
    /\ CallsOf(last.out, "SDL_LogError") # {}
    /\ ~kb.created /\ ~kb.fsClient /\ ~kb.workMemory
    /\ kb.cached_system_region # NULL

(***************************************************************************)
(* The region of a locale                                                  *)
(***************************************************************************)
\* The region the country alone names, NULL where it names none.
RegionOfCountry(country) ==
    CASE country = "JP" -> "Japan"
      [] country \in {"US", "CA", "MX", "BR"} -> "USA"
      [] country \in {"DE", "ES", "FR", "GB", "IT", "NL", "PT", "RU"} -> "Europe"
      [] OTHER -> NULL
\* The region the language alone names, NULL where it names none.
RegionOfLanguage(language) ==
    CASE language = "ja" -> "Japan"
      [] language = "en" -> "USA"
      [] language \in {"de", "es", "fr", "it", "nl", "pt", "ru"} -> "Europe"
      [] OTHER -> NULL
\* The country first, the language only where the country names no region.
RegionAsStated(language, country) ==
    IF RegionOfCountry(country) # NULL THEN RegionOfCountry(country)
    ELSE RegionOfLanguage(language)
\* The <<language, country>> pair WIIU_SWKBD_Initialize parses from the stored locale.
StoredLocale ==
    IF variant = "exc" THEN parse_locale_exc(kb.swkbdLocale)
    ELSE parse_locale_flag(kb.swkbdLocale)

\* A keyboard created without a custom create argument has the region of its
\* locale, or the system region where the locale has none.
C22_Step ==
    (InitializeCreated /\ kb.create_customArg = NULL) =>
        kb'.region =
            IF RegionAsStated(StoredLocale[1], StoredLocale[2]) # NULL
            THEN RegionAsStated(StoredLocale[1], StoredLocale[2])
            ELSE nn.systemRegion

\* C22: to_region lets the country decide before the language: JP gives Japan,
\* US/CA/MX/BR give USA, DE/ES/FR/GB/IT/NL/PT/RU give Europe whatever the
\* language; otherwise ja gives Japan, en gives USA, de/es/fr/it/nl/pt/ru give
\* Europe; every other pair gives no region, and WIIU_SWKBD_Initialize then
\* creates the keyboard for the system region.
C22_CountryBeforeLanguage ==
    /\ [](toRegion.ret # "unset" =>
             toRegion.ret = RegionAsStated(toRegion.language, toRegion.country))
    /\ [][C22_Step]_vars

\* to_region was given a language and a country that name different regions, and
\* the country won.
C22_Witness ==
    /\ toRegion.language = "ja" /\ toRegion.country = "BR"
    /\ toRegion.ret = "USA"
    /\ kb.created /\ kb.region = "USA"

(***************************************************************************)
(* Textures the GPU still uses                                             *)
(***************************************************************************)
\* The positions in the last texture call's log of the calls that hand the
\* texture's memory to the CPU or release it.
Touches ==
    {i \in 1 .. Len(texLast.out) :
        texLast.out[i][1] \in {"GX2RLockSurfaceEx", "GX2RDestroySurfaceEx", "SDL_free"}}
\* fn was called, once, before the texture was touched.
CalledFirst(fn) ==
    /\ Cardinality(CallsOf(texLast.out, fn)) = 1
    /\ \A i \in CallsOf(texLast.out, fn), j \in Touches : i < j
LockedOrDestroyed ==
    /\ texLast.op \in {"WIIU_SDL_LockTexture", "WIIU_SDL_DestroyTexture"}
    /\ Touches # {}

\* C23: in the foreground, WIIU_SDL_LockTexture and WIIU_SDL_DestroyTexture call
\* WIIU_TextureWaitDone before they touch a texture that WIIU_TextureInUse reports
\* in use, and destroying a render target calls GX2DrawDone before any surface is
\* released.
C23_WaitBeforeTouch ==
    (LockedOrDestroyed /\ tex.hasForeground) =>
        /\ tex.inUse => CalledFirst("WIIU_TextureWaitDone")
        /\ (texLast.op = "WIIU_SDL_DestroyTexture"
                /\ tex.access = "SDL_TEXTUREACCESS_TARGET") =>
              /\ CalledFirst("GX2DrawDone")
              /\ Cardinality(CallsOf(texLast.out, "GX2RDestroySurfaceEx")) = 2

\* A render target still in use was destroyed in the foreground.
C23_Witness ==
    /\ texLast.op = "WIIU_SDL_DestroyTexture"
    /\ tex.destroyed /\ tex.hasForeground /\ tex.inUse
    /\ tex.access = "SDL_TEXTUREACCESS_TARGET"
    /\ CallsOf(texLast.out, "GX2RDestroySurfaceEx") # {}

====
